---------------------------- MODULE Spec2Model ----------------------------
(***************************************************************************)
(* Terminology search index and concept translation engine                 *)
(* (main-server/src/services/fhirService.js: FHIRService, SearchService).  *)
(*                                                                         *)
(* Text is a sequence of one-character strings; a URI is a sequence of its *)
(* path segments.  String.includes / startsWith are contiguous-subsequence *)
(* tests on either.  An absent or empty optional string is <<>> (the code  *)
(* tests such fields for truthiness only, and '' and undefined are both    *)
(* falsy).                                                                 *)
(***************************************************************************)
EXTENDS Integers, Sequences, FiniteSets, TLC

VARIABLES
    db,            \* Concept Store: codesystems, conceptmaps, valuesets
    redis,         \* Cache Adapter: keys 'search-index', 'search-index-version'
    searchIndex,   \* SearchService.searchIndex, per instance (insertion-ordered Map)
    indexVersion,  \* SearchService.indexVersion, per instance
    task,          \* the in-flight buildSearchIndex / refreshIndex calls
    clock,         \* source of new Date().toISOString()
    calls,         \* how many initialize / refreshIndex calls have been made
    out,           \* what the last completed operation returned (or threw)
    seen           \* the first searchTerms outcome since an index last changed

vars == <<db, redis, searchIndex, indexVersion, task, clock, calls, out, seen>>

Null == "null"

-----------------------------------------------------------------------------
(* String primitives *)

LowerChar(c) ==
    CASE c = "A" -> "a"
      [] c = "B" -> "b"
      [] OTHER -> c

toLowerCase(s) == [i \in 1..Len(s) |-> LowerChar(s[i])]

IsSpace(c) == c = " "

RECURSIVE trimStart(_)
trimStart(s) ==
    IF s # <<>> /\ IsSpace(Head(s)) THEN trimStart(Tail(s)) ELSE s

RECURSIVE trimEnd(_)
trimEnd(s) ==
    IF s # <<>> /\ IsSpace(s[Len(s)]) THEN trimEnd(SubSeq(s, 1, Len(s) - 1)) ELSE s

trim(s) == trimEnd(trimStart(s))

includes(s, sub) ==
    \E i \in 0..(Len(s) - Len(sub)) : SubSeq(s, i + 1, i + Len(sub)) = sub

startsWith(s, p) ==
    Len(p) <= Len(s) /\ SubSeq(s, 1, Len(p)) = p

Min2(a, b) == IF a <= b THEN a ELSE b

Max2(a, b) == IF a >= b THEN a ELSE b

\* Array.prototype.slice(start, end) for 0 <= start, 0 <= end
slice(s, start, end) ==
    SubSeq(s, Min2(start, Len(s)) + 1, Min2(end, Len(s)))

\* [...new Set(s)]: first occurrences, in order
RECURSIVE Dedup(_)
Dedup(s) ==
    IF s = <<>> THEN <<>>
    ELSE LET r == Dedup(SubSeq(s, 1, Len(s) - 1))
             x == s[Len(s)]
         IN IF \E i \in 1..Len(r) : r[i] = x THEN r ELSE Append(r, x)

\* Array.prototype.find: index of the first match, 0 when there is none
\* given the indexes of the matching items
FindIndex(matching) ==
    IF matching = {} THEN 0 ELSE CHOOSE i \in matching : \A j \in matching : i <= j

Range(s) == {s[i] : i \in 1..Len(s)}

-----------------------------------------------------------------------------
(* Canonical URIs and the markers the code looks for in them *)

NamasteUrl == <<"terminology.ayush.gov.in", "CodeSystem", "namaste">>
Tm2Url     == <<"id.who.int", "icd", "mms", "traditional-medicine">>
BioUrl     == <<"id.who.int", "icd", "mms">>


-----------------------------------------------------------------------------
(* SearchService: index entries *)

\* the search terms a concept's property list contributes, in order
RECURSIVE PropertyTerms(_)
PropertyTerms(props) ==
    IF props = <<>> THEN <<>>
    ELSE LET prop == Head(props)
         IN (IF prop.valueString # <<>> THEN <<toLowerCase(prop.valueString)>> ELSE <<>>)
            \o (IF prop.valueCode # <<>> THEN <<toLowerCase(prop.valueCode)>> ELSE <<>>)
            \o PropertyTerms(Tail(props))

SystemTypeOf(url) ==
    IF includes(url, <<"namaste">>) THEN "namaste"
    ELSE IF includes(url, <<"traditional-medicine">>) THEN "icd11-tm2"
    ELSE IF includes(url, <<"icd">>) THEN "icd11-bio"
    ELSE "unknown"

createSearchEntry(concept, codeSystem) ==
    [ system      |-> codeSystem.url,
      systemType  |-> SystemTypeOf(codeSystem.url),
      systemName  |-> codeSystem.name,
      code        |-> concept.code,
      display     |-> concept.display,
      definition  |-> concept.definition,
      searchTerms |-> Dedup(<<toLowerCase(concept.code), toLowerCase(concept.display)>>
                            \o (IF concept.definition # <<>>
                                THEN <<toLowerCase(concept.definition)>> ELSE <<>>)
                            \o PropertyTerms(concept.property)),
      properties  |-> concept.property,
      mappings    |-> <<>> ]

KeyOf(entry) == <<entry.system, entry.code>>

\* Map.prototype.set: an existing key keeps its place, a new key goes last
MapSet(index, entry) ==
    LET i == FindIndex({k \in 1..Len(index) : KeyOf(index[k]) = KeyOf(entry)})
    IN IF i = 0 THEN Append(index, entry) ELSE [index EXCEPT ![i] = entry]

-----------------------------------------------------------------------------
(* SearchService: relevance scoring and fuzzy matching *)

\* the substring test made first, so that an exact match never gets its 100
CodeScore_ContainsFirst(searchTerm, entry) ==
    IF includes(toLowerCase(entry.code), searchTerm) THEN 50
    ELSE IF toLowerCase(entry.code) = searchTerm THEN 100
    ELSE 0

CodeScore(searchTerm, entry) ==
    IF toLowerCase(entry.code) = searchTerm THEN 100
    ELSE IF includes(toLowerCase(entry.code), searchTerm) THEN 50
    ELSE 0

\* the three display tests made one after another, each adding its weight
DisplayScore_Cumulative(searchTerm, entry) ==
    (IF toLowerCase(entry.display) = searchTerm THEN 80 ELSE 0)
      + (IF startsWith(toLowerCase(entry.display), searchTerm) THEN 60 ELSE 0)
      + (IF includes(toLowerCase(entry.display), searchTerm) THEN 40 ELSE 0)

DisplayScore(searchTerm, entry) ==
    IF toLowerCase(entry.display) = searchTerm THEN 80
    ELSE IF startsWith(toLowerCase(entry.display), searchTerm) THEN 60
    ELSE IF includes(toLowerCase(entry.display), searchTerm) THEN 40
    ELSE 0

\* the definition compared with === instead of includes
DefinitionScore_Equals(searchTerm, entry) ==
    IF entry.definition # <<>> /\ toLowerCase(entry.definition) = searchTerm
    THEN 20 ELSE 0

DefinitionScore(searchTerm, entry) ==
    IF entry.definition # <<>> /\ includes(toLowerCase(entry.definition), searchTerm)
    THEN 20 ELSE 0

TermMatches(searchTerm, entry, term) ==
    /\ includes(term, searchTerm)
    /\ term # toLowerCase(entry.code)
    /\ term # toLowerCase(entry.display)

PropertyScore(searchTerm, entry) ==
    10 * Cardinality({i \in 1..Len(entry.searchTerms) :
                        TermMatches(searchTerm, entry, entry.searchTerms[i])})

\* the score accumulated before the fuzzy fallback is considered
TextScore(searchTerm, entry) ==
    CodeScore(searchTerm, entry) + DisplayScore(searchTerm, entry)
        + DefinitionScore(searchTerm, entry) + PropertyScore(searchTerm, entry)

levenshteinDistance(str1, str2) ==
    LET matrix[i \in 0..Len(str2), j \in 0..Len(str1)] ==
            IF i = 0 THEN j
            ELSE IF j = 0 THEN i
            ELSE IF str2[i] = str1[j] THEN matrix[i - 1, j - 1]
            ELSE Min2(matrix[i - 1, j - 1] + 1,
                      Min2(matrix[i, j - 1] + 1, matrix[i - 1, j] + 1))
    IN matrix[Len(str2), Len(str1)]

\* similarity 1 - distance/maxLength as the fraction <<numerator, denominator>>
Similarity(searchTerm, target) ==
    LET maxLength == Max2(Len(searchTerm), Len(target))
    IN <<maxLength - levenshteinDistance(searchTerm, target), maxLength>>

FracLess(x, y) == x[1] * y[2] < y[1] * x[2]

\* the best similarity over display and code; searchTerm has length >= 2, so
\* no denominator is 0
calculateFuzzyScore(searchTerm, entry) ==
    LET d == Similarity(searchTerm, toLowerCase(entry.display))
        c == Similarity(searchTerm, toLowerCase(entry.code))
        m0 == IF FracLess(<<0, 1>>, d) THEN d ELSE <<0, 1>>
    IN IF FracLess(m0, c) THEN c ELSE m0

\* the fallback taken on a zero score whether or not the caller asked for it
FuzzyInvoked_IgnoresOption(searchTerm, entry, fuzzy) ==
    TextScore(searchTerm, entry) = 0

\* whether calculateRelevanceScore calls calculateFuzzyScore
FuzzyInvoked(searchTerm, entry, fuzzy) ==
    fuzzy /\ TextScore(searchTerm, entry) = 0

FuzzyContribution(searchTerm, entry) ==
    LET f == calculateFuzzyScore(searchTerm, entry)
    IN IF FracLess(<<7, 10>>, f) THEN (30 * f[1]) \div f[2] ELSE 0

NamasteBoost(entry) == IF entry.systemType = "namaste" THEN 5 ELSE 0

calculateRelevanceScore(searchTerm, entry, fuzzy) ==
    TextScore(searchTerm, entry)
      + (IF FuzzyInvoked(searchTerm, entry, fuzzy)
         THEN FuzzyContribution(searchTerm, entry) ELSE 0)
      + NamasteBoost(entry)

-----------------------------------------------------------------------------
(* SearchService.searchTerms *)

\* the options object after destructuring with its defaults
SearchOptions(systemFilter, systemType, limit, fuzzy) ==
    [systemFilter |-> systemFilter, systemType |-> systemType,
     limit |-> limit, fuzzy |-> fuzzy]

\* whether the scan's pre-filters let the entry through to scoring
PassesFilters(entry, options) ==
    /\ options.systemFilter = <<>> \/ includes(entry.system, options.systemFilter)
    /\ options.systemType = Null \/ entry.systemType = options.systemType

\* the break test at the end of a loop iteration
StopScan(results, limit) == Len(results) >= limit * 3

\* the for..of loop from position i on; acc gathers the candidates pushed, the
\* keys scored and the keys calculateFuzzyScore was called for
RECURSIVE ScanFrom(_, _, _, _, _)
ScanFrom(index, i, searchTerm, options, acc) ==
    IF i > Len(index) THEN acc
    ELSE LET entry == index[i]
         IN IF ~PassesFilters(entry, options)
            THEN ScanFrom(index, i + 1, searchTerm, options, acc)
            ELSE LET score == calculateRelevanceScore(searchTerm, entry, options.fuzzy)
                     next == [ results |-> IF score > 0
                                           THEN Append(acc.results,
                                                       [entry |-> entry, score |-> score])
                                           ELSE acc.results,
                               scored  |-> Append(acc.scored, KeyOf(entry)),
                               fuzzyCalls |->
                                   IF FuzzyInvoked(searchTerm, entry, options.fuzzy)
                                   THEN acc.fuzzyCalls \cup {KeyOf(entry)}
                                   ELSE acc.fuzzyCalls ]
                 IN IF StopScan(next.results, options.limit) THEN next
                    ELSE ScanFrom(index, i + 1, searchTerm, options, next)

\* the step of an unstable sort: an item goes before those of equal score
InsertByScore_BeforeEqual(sorted, x) ==
    LET j == FindIndex({k \in 1..Len(sorted) : sorted[k].score <= x.score})
    IN IF j = 0 THEN Append(sorted, x)
       ELSE SubSeq(sorted, 1, j - 1) \o <<x>> \o SubSeq(sorted, j, Len(sorted))

\* one step of a stable sort with comparator (a, b) => b.score - a.score
InsertByScore(sorted, x) ==
    LET j == FindIndex({k \in 1..Len(sorted) : sorted[k].score < x.score})
    IN IF j = 0 THEN Append(sorted, x)
       ELSE SubSeq(sorted, 1, j - 1) \o <<x>> \o SubSeq(sorted, j, Len(sorted))

RECURSIVE SortByScore(_)
SortByScore(results) ==
    IF results = <<>> THEN <<>>
    ELSE InsertByScore(SortByScore(SubSeq(results, 1, Len(results) - 1)),
                       results[Len(results)])

\* the fields of one bundle entry that depend on the result
BundleEntry(result) ==
    [ system      |-> result.entry.system,
      code        |-> result.entry.code,
      display     |-> result.entry.display,
      systemType  |-> result.entry.systemType,
      mappings    |-> result.entry.mappings,
      relevanceScore |-> result.score,
      searchScore |-> <<result.score, 100>> ]

createSearchBundle(results, query, total) ==
    [ type  |-> "searchset",
      total |-> total,
      entry |-> [i \in 1..Len(results) |-> BundleEntry(results[i])],
      issue |-> <<>> ]

createEmptySearchBundle(message) ==
    [ type  |-> "searchset",
      total |-> 0,
      entry |-> <<>>,
      issue |-> <<message>> ]

EmptyScan == [results |-> <<>>, scored |-> <<>>, fuzzyCalls |-> {}]

\* the length test made on the query as given, without trimming it
searchTerms_NoTrim(index, query, options) ==
    LET searchTerm == toLowerCase(query)
    IN IF Len(searchTerm) < 2
       THEN [ bundle |-> createEmptySearchBundle("Query too short"),
              scored |-> <<>>, fuzzyCalls |-> {} ]
       ELSE LET scan == ScanFrom(index, 1, searchTerm, options, EmptyScan)
                limitedResults == slice(SortByScore(scan.results), 0, options.limit)
            IN [ bundle |-> createSearchBundle(limitedResults, query, Len(scan.results)),
                 scored |-> scan.scored, fuzzyCalls |-> scan.fuzzyCalls ]

\* the call's return value with what it did on the way: the entries it scored
\* and those it ran the fuzzy matcher on
searchTerms(index, query, options) ==
    LET searchTerm == trim(toLowerCase(query))
    IN IF Len(searchTerm) < 2
       THEN [ bundle |-> createEmptySearchBundle("Query too short"),
              scored |-> <<>>, fuzzyCalls |-> {} ]
       ELSE LET scan == ScanFrom(index, 1, searchTerm, options, EmptyScan)
                limitedResults == slice(SortByScore(scan.results), 0, options.limit)
            IN [ bundle |-> createSearchBundle(limitedResults, query, Len(scan.results)),
                 scored |-> scan.scored, fuzzyCalls |-> scan.fuzzyCalls ]

-----------------------------------------------------------------------------
(* Stored documents.  A field that should hold an array is                 *)
(* [kind, items]: "list" (an array), "absent" (undefined) or "malformed"   *)
(* (a truthy value that is no array and cannot be iterated).               *)

List(items) == [kind |-> "list", items |-> items]
Absent      == [kind |-> "absent", items |-> <<>>]
Malformed   == [kind |-> "malformed", items |-> <<>>]

\* what a call hands back to its caller: a value, or a thrown error
Returned(value) == [threw |-> FALSE, error |-> "", value |-> value]
Thrown(error)   == [threw |-> TRUE, error |-> error, value |-> Null]

-----------------------------------------------------------------------------
(* FHIRService.translateConcept *)

NotFoundParameters(message) ==
    [ result |-> FALSE, message |-> message,
      equivalence |-> Null, system |-> Null, code |-> Null, display |-> Null ]

MatchParameters(targetSystem, target) ==
    [ result |-> TRUE, message |-> "",
      equivalence |-> target.equivalence, system |-> targetSystem,
      code |-> target.code, display |-> target.display ]

\* collection('conceptmaps').findOne({sourceUri, targetUri}): position of the
\* first matching document, 0 when there is none
FindConceptMap(conceptmaps, sourceSystem, targetSystem) ==
    FindIndex({ k \in 1..Len(conceptmaps) :
                  /\ conceptmaps[k].sourceUri = sourceSystem
                  /\ conceptmaps[k].targetUri = targetSystem })

\* conceptMap.group?.find(g => g.source === sourceSystem)
FindGroup(conceptMap, sourceSystem) ==
    FindIndex({k \in 1..Len(conceptMap.group) : conceptMap.group[k].source = sourceSystem})

\* the element's first target taken as the translation, whatever its equivalence
translateConcept_FirstTarget(store, sourceSystem, sourceCode, targetSystem) ==
    LET m == FindConceptMap(store.conceptmaps, sourceSystem, targetSystem)
    IN IF m = 0
       THEN Returned(NotFoundParameters("No ConceptMap found for the specified systems"))
       ELSE
       LET conceptMap == store.conceptmaps[m]
           g == FindGroup(conceptMap, sourceSystem)
       IN IF g = 0 \/ conceptMap.group[g].element.kind = "absent"
          THEN Returned(NotFoundParameters("No equivalent mapping found"))
          ELSE IF conceptMap.group[g].element.kind = "malformed"
          THEN Thrown("TypeError")
          ELSE
          LET elements == conceptMap.group[g].element.items
              e == FindIndex({k \in 1..Len(elements) : elements[k].code = sourceCode})
          IN IF e = 0 \/ elements[e].target.kind = "absent"
             THEN Returned(NotFoundParameters("No equivalent mapping found"))
             ELSE IF elements[e].target.kind = "malformed"
             THEN Thrown("TypeError")
             ELSE IF elements[e].target.items = <<>>
             THEN Returned(NotFoundParameters("No equivalent mapping found"))
             ELSE Returned(MatchParameters(targetSystem, elements[e].target.items[1]))

translateConcept(store, sourceSystem, sourceCode, targetSystem) ==
    LET m == FindConceptMap(store.conceptmaps, sourceSystem, targetSystem)
    IN IF m = 0
       THEN Returned(NotFoundParameters("No ConceptMap found for the specified systems"))
       ELSE
       LET conceptMap == store.conceptmaps[m]
           g == FindGroup(conceptMap, sourceSystem)
       IN IF g = 0 \/ conceptMap.group[g].element.kind = "absent"
          THEN Returned(NotFoundParameters("No equivalent mapping found"))
          ELSE IF conceptMap.group[g].element.kind = "malformed"
          THEN Thrown("TypeError")
          ELSE
          LET elements == conceptMap.group[g].element.items
              e == FindIndex({k \in 1..Len(elements) : elements[k].code = sourceCode})
          IN IF e = 0 \/ elements[e].target.kind = "absent"
             THEN Returned(NotFoundParameters("No equivalent mapping found"))
             ELSE IF elements[e].target.kind = "malformed"
             THEN Thrown("TypeError")
             ELSE
             LET targets == elements[e].target.items
                 t == FindIndex({k \in 1..Len(targets) : targets[k].equivalence = "equivalent"})
             IN IF t = 0
                THEN Returned(NotFoundParameters("No equivalent mapping found"))
                ELSE Returned(MatchParameters(targetSystem, targets[t]))

-----------------------------------------------------------------------------
(* FHIRService.expandValueSet *)

FindByUrl(collection, url) == FindIndex({k \in 1..Len(collection) : collection[k].url = url})

\* a filter callback that looks at the display only
MatchesFilter_DisplayOnly(concept, filterTerm) ==
    includes(toLowerCase(concept.display), filterTerm)

\* the filter callback of the expansion
MatchesFilter(concept, filterTerm) ==
    \/ includes(toLowerCase(concept.display), filterTerm)
    \/ includes(toLowerCase(concept.code), filterTerm)
    \/ includes(toLowerCase(concept.definition), filterTerm)

FilterConcepts(concepts, filter) ==
    IF filter # <<>>
    THEN SelectSeq(concepts, LAMBDA c : MatchesFilter(c, toLowerCase(filter)))
    ELSE concepts

\* the page taken as slice(offset, count): count used as the end index
Paginate_EndIsCount(concepts, count, offset) == slice(concepts, offset, count)

\* concepts.slice(offset, offset + count)
Paginate(concepts, count, offset) == slice(concepts, offset, offset + count)

expandValueSet(store, url, filter, count, offset) ==
    LET v == FindByUrl(store.valuesets, url)
    IN IF v = 0 THEN Thrown("ValueSet not found")
       ELSE
       LET valueSet == store.valuesets[v]
       IN IF valueSet.compose.include = <<>> \/ valueSet.compose.include[1].system = <<>>
          THEN Thrown("ValueSet compose.include not found")
          ELSE
          LET include == valueSet.compose.include[1]
              c == FindByUrl(store.codesystems, include.system)
          IN IF c = 0 THEN Thrown("Referenced CodeSystem not found")
             ELSE
             LET concepts == FilterConcepts(store.codesystems[c].concept, filter)
                 page == Paginate(concepts, count, offset)
             IN Returned([ url    |-> valueSet.url,
                           total  |-> Len(concepts),
                           offset |-> offset,
                           filter |-> filter,
                           contains |-> [i \in 1..Len(page) |->
                                            [ system  |-> include.system,
                                              code    |-> page[i].code,
                                              display |-> page[i].display ]] ])

-----------------------------------------------------------------------------
(* SearchService: building the index *)

RECURSIVE SetConcepts(_, _, _)
SetConcepts(index, codeSystem, concepts) ==
    IF concepts = <<>> THEN index
    ELSE SetConcepts(MapSet(index, createSearchEntry(Head(concepts), codeSystem)),
                     codeSystem, Tail(concepts))

\* the loop over all CodeSystems, writing into the live index
RECURSIVE PopulateIndex(_, _)
PopulateIndex(index, codeSystems) ==
    IF codeSystems = <<>> THEN index
    ELSE PopulateIndex(SetConcepts(index, Head(codeSystems), Head(codeSystems).concept),
                       Tail(codeSystems))

\* element.target.map(...)
MappingsOf(group, element) ==
    [i \in 1..Len(element.target.items) |->
        [ targetSystem  |-> group.target,
          targetCode    |-> element.target.items[i].code,
          targetDisplay |-> element.target.items[i].display,
          equivalence   |-> element.target.items[i].equivalence ]]

\* the visits of the three nested loops, in order: one per element, and one
\* for a group whose element field cannot be iterated
GroupVisits(group) ==
    IF group.element.kind = "absent" THEN <<>>
    ELSE IF group.element.kind = "malformed"
    THEN <<[group |-> group, malformed |-> TRUE, element |-> Null]>>
    ELSE [i \in 1..Len(group.element.items) |->
            [group |-> group, malformed |-> FALSE, element |-> group.element.items[i]]]

RECURSIVE GroupsVisits(_)
GroupsVisits(groups) ==
    IF groups = <<>> THEN <<>>
    ELSE GroupVisits(Head(groups)) \o GroupsVisits(Tail(groups))

RECURSIVE MapsVisits(_)
MapsVisits(conceptMaps) ==
    IF conceptMaps = <<>> THEN <<>>
    ELSE GroupsVisits(Head(conceptMaps).group) \o MapsVisits(Tail(conceptMaps))

\* sourceEntry.mappings = ... for one element
AttachElement(index, group, element) ==
    LET i == FindIndex({k \in 1..Len(index) : KeyOf(index[k]) = <<group.source, element.code>>})
    IN IF i # 0 /\ element.target.kind = "list"
       THEN [index EXCEPT ![i].mappings = MappingsOf(group, element)]
       ELSE index

\* a visit that raises a TypeError, which the catch of enhanceWithMappings
\* logs; the remaining visits are then never made
VisitThrows(index, visit) ==
    \/ visit.malformed
    \/ /\ ~visit.malformed
       /\ visit.element.target.kind = "malformed"
       /\ \E i \in 1..Len(index) : KeyOf(index[i]) = <<visit.group.source, visit.element.code>>

RECURSIVE AttachFrom(_, _)
AttachFrom(index, visits) ==
    IF visits = <<>> THEN index
    ELSE IF VisitThrows(index, Head(visits)) THEN index
    ELSE AttachFrom(AttachElement(index, Head(visits).group, Head(visits).element),
                    Tail(visits))

\* enhanceWithMappings once the ConceptMaps have been read
enhanceWithMappings(index, conceptMaps) == AttachFrom(index, MapsVisits(conceptMaps))

-----------------------------------------------------------------------------
(* SearchService.findMappingsForCode and the records of searchWithDualCoding *)

NoCoding == [present |-> FALSE, system |-> <<>>, code |-> <<>>, display |-> <<>>]
Coding(system, code, display) ==
    [present |-> TRUE, system |-> system, code |-> code, display |-> display]

NoMappings == [tm2 |-> NoCoding, bio |-> NoCoding, threw |-> FALSE]

\* the 'mms' test made before the 'traditional-medicine' test
MappingsAfterGroup_BioFirst(mappings, group, sourceSystem, sourceCode) ==
    IF mappings.threw \/ group.source # sourceSystem \/ group.element.kind = "absent"
    THEN mappings
    ELSE IF group.element.kind = "malformed"
    THEN [mappings EXCEPT !.threw = TRUE]
    ELSE
    LET elements == group.element.items
        e == FindIndex({k \in 1..Len(elements) : elements[k].code = sourceCode})
    IN IF e = 0 \/ elements[e].target.kind # "list" \/ elements[e].target.items = <<>>
       THEN mappings
       ELSE LET target == elements[e].target.items[1]
                coding == Coding(group.target, target.code, target.display)
            IN IF includes(group.target, <<"mms">>)
               THEN [mappings EXCEPT !.bio = coding]
               ELSE IF includes(group.target, <<"traditional-medicine">>)
               THEN [mappings EXCEPT !.tm2 = coding]
               ELSE mappings

\* one pass of the inner loop body: the group's element for the code, its first
\* target filed under tm2 or bio by the group's target system
MappingsAfterGroup(mappings, group, sourceSystem, sourceCode) ==
    IF mappings.threw \/ group.source # sourceSystem \/ group.element.kind = "absent"
    THEN mappings
    ELSE IF group.element.kind = "malformed"
    THEN [mappings EXCEPT !.threw = TRUE]
    ELSE
    LET elements == group.element.items
        e == FindIndex({k \in 1..Len(elements) : elements[k].code = sourceCode})
    IN IF e = 0 \/ elements[e].target.kind # "list" \/ elements[e].target.items = <<>>
       THEN mappings
       ELSE LET target == elements[e].target.items[1]
                coding == Coding(group.target, target.code, target.display)
            IN IF includes(group.target, <<"traditional-medicine">>)
               THEN [mappings EXCEPT !.tm2 = coding]
               ELSE IF includes(group.target, <<"mms">>)
               THEN [mappings EXCEPT !.bio = coding]
               ELSE mappings

RECURSIVE MappingsAfterGroups(_, _, _, _)
MappingsAfterGroups(mappings, groups, sourceSystem, sourceCode) ==
    IF groups = <<>> THEN mappings
    ELSE MappingsAfterGroups(
            MappingsAfterGroup(mappings, Head(groups), sourceSystem, sourceCode),
            Tail(groups), sourceSystem, sourceCode)

RECURSIVE MappingsAfterMaps(_, _, _, _)
MappingsAfterMaps(mappings, conceptMaps, sourceSystem, sourceCode) ==
    IF conceptMaps = <<>> THEN mappings
    ELSE MappingsAfterMaps(
            MappingsAfterGroups(mappings, Head(conceptMaps).group, sourceSystem, sourceCode),
            Tail(conceptMaps), sourceSystem, sourceCode)

\* findMappingsForCode once the ConceptMaps with sourceUri = sourceSystem have
\* been read; a TypeError on the way is caught and nothing is returned
findMappingsForCode(conceptmaps, sourceSystem, sourceCode) ==
    LET found == MappingsAfterMaps(
                    NoMappings,
                    SelectSeq(conceptmaps, LAMBDA m : m.sourceUri = sourceSystem),
                    sourceSystem, sourceCode)
    IN IF found.threw THEN NoMappings ELSE found

\* enhancedResults.push({...}) for one entry of the search bundle
DualRecord(entry, mappings) ==
    [ namaste |-> Coding(entry.system, entry.code, entry.display),
      icd11TM2 |-> mappings.tm2,
      icd11Bio |-> mappings.bio,
      relevanceScore |-> entry.searchScore ]

\* JSON.stringify(Array.from(index.entries())) and JSON.parse: the text of an
\* empty index is "[]", a non-empty (truthy) string
JSONstringify(indexArray) == [present |-> TRUE, text |-> indexArray]
JSONparse(cached) == cached.text
NoValue == [present |-> FALSE, text |-> <<>>]

-----------------------------------------------------------------------------
(* Documents of the Concept Store used by the life-cycle specification *)

Concept(code, display, definition, property) ==
    [code |-> code, display |-> display, definition |-> definition, property |-> property]

CodeSystem(url, name, concepts) == [url |-> url, name |-> name, concept |-> concepts]

Target(code, display, equivalence) ==
    [code |-> code, display |-> display, equivalence |-> equivalence]

Element(code, target) == [code |-> code, target |-> target]

Group(source, target, element) == [source |-> source, target |-> target, element |-> element]

ConceptMap(sourceUri, targetUri, groups) ==
    [sourceUri |-> sourceUri, targetUri |-> targetUri, group |-> groups]

ValueSet(url, includes_) == [url |-> url, compose |-> [include |-> includes_]]

NamasteVsUrl == <<"terminology.ayush.gov.in", "ValueSet", "namaste">>

K1 == Concept(<<"b", "a">>, <<"b", "a", "b">>, <<>>, <<>>)
K2 == Concept(<<"a", "b", "b">>, <<"A", "b", "b", "a">>, <<>>, <<>>)
K3 == Concept(<<"a", "a">>, <<"a", "a">>, <<>>, <<>>)
T1 == Concept(<<"b", "b">>, <<"a", "b">>, <<>>, <<>>)
T2 == Concept(<<"A", "B">>, <<"a", "b">>, <<>>, <<>>)

MapTo(code, concept) ==
    Element(code, List(<<Target(concept.code, concept.display, "equivalent")>>))

StoreV1 ==
    [ codesystems |-> << CodeSystem(NamasteUrl, "NAMASTE", <<K1, K2>>),
                         CodeSystem(Tm2Url, "ICD11-TM2", <<T1, T2>>) >>,
      conceptmaps |-> << ConceptMap(NamasteUrl, Tm2Url,
                            << Group(NamasteUrl, Tm2Url, List(<<MapTo(K1.code, T1)>>)) >>) >>,
      valuesets   |-> << ValueSet(NamasteVsUrl, <<[system |-> NamasteUrl, concept |-> <<>>]>>) >> ]

\* the store after an ingestion run added a concept and a mapping
StoreV2 ==
    [ codesystems |-> << CodeSystem(NamasteUrl, "NAMASTE", <<K1, K2, K3>>),
                         CodeSystem(Tm2Url, "ICD11-TM2", <<T1, T2>>) >>,
      conceptmaps |-> << ConceptMap(NamasteUrl, Tm2Url,
                            << Group(NamasteUrl, Tm2Url,
                                     List(<<MapTo(K1.code, T1), MapTo(K2.code, T2)>>)) >>) >>,
      valuesets   |-> << ValueSet(NamasteVsUrl, <<[system |-> NamasteUrl, concept |-> <<>>]>>) >> ]

Stores == {StoreV1, StoreV2}

\* the index a build from the store yields when nothing interferes
BuiltFrom(store) ==
    enhanceWithMappings(PopulateIndex(<<>>, store.codesystems), store.conceptmaps)

-----------------------------------------------------------------------------
(* Life cycle of the index: initialize, buildSearchIndex, refreshIndex      *)
(* Every await is one step: the awaited call takes effect and the code up  *)
(* to the next await runs.                                                 *)

Instances == {"router", "admin"}
Procs == {"p1", "p2"}
MaxCalls == 2

\* what a call knows of a Concept Store collection: not read, read (with the
\* documents that arrived) or read with an error
Unread == [read |-> "no", docs |-> <<>>]
ReadOk(docs) == [read |-> "ok", docs |-> docs]
ReadFailed == [read |-> "failed", docs |-> <<>>]

IdleTask ==
    [ pc |-> "idle", inst |-> "router", kind |-> "none",
      cachedIndex |-> NoValue, cachedVersion |-> 0, indexArray |-> <<>>,
      versionArg |-> 0, writes |-> 0, before |-> <<>>,
      beforeVersion |-> 0, beforeCache |-> [index |-> NoValue, version |-> 0],
      codeSystems |-> Unread, conceptMaps |-> Unread,
      query |-> <<>>, hits |-> <<>>, records |-> <<>>, failedReads |-> 0,
      limit |-> 0 ]

InFlight(t) == t.pc # "idle"

NoOutcome == [op |-> "none"]

\* how an initialize() or refreshIndex() call of task t ended: by a throw (and
\* at which await) or by returning, through the cache-hit branch or after the
\* cache writes; with the index and version stamp the instance then holds,
\* the cache values the call read, the store documents it read, the number
\* of cache writes it made, the cache it left behind and, for a refresh, what
\* the instance and the cache held when it was called
BuildOutcome(t, threw, hit, index, version, cache) ==
    [ op |-> t.kind, inst |-> t.inst, threw |-> threw, failedAt |-> IF threw THEN t.pc ELSE "",
      hit |-> hit, writes |-> t.writes,
      index |-> index, version |-> version,
      cachedIndex |-> t.cachedIndex, cachedVersion |-> t.cachedVersion,
      cache |-> cache,
      before |-> [index |-> t.before, version |-> t.beforeVersion, cache |-> t.beforeCache],
      codeSystems |-> t.codeSystems, conceptMaps |-> t.conceptMaps ]
NotSeen ==
    [ valid |-> FALSE, inst |-> "router", query |-> <<>>,
      options |-> SearchOptions(<<>>, Null, 0, FALSE),
      bundle |-> createEmptySearchBundle(""), others |-> FALSE, again |-> FALSE ]

\* a write to the index of instance i ends the period over which searches on
\* it are compared
Forget(i) == IF seen.inst = i THEN NotSeen ELSE seen

\* the services as constructed
Constructed ==
    /\ redis = [index |-> NoValue, version |-> 0]
    /\ searchIndex = [i \in Instances |-> <<>>]
    /\ indexVersion = [i \in Instances |-> 0]
    /\ clock = 0

\* the router's service after its first initialize() completed
Loaded ==
    /\ redis = [index |-> JSONstringify(BuiltFrom(StoreV1)), version |-> 1]
    /\ searchIndex = [i \in Instances |->
                        IF i = "router" THEN BuiltFrom(StoreV1) ELSE <<>>]
    /\ indexVersion = [i \in Instances |-> IF i = "router" THEN 1 ELSE 0]
    /\ clock = 1

Init ==
    /\ db = StoreV1
    /\ Constructed \/ Loaded
    /\ task = [p \in Procs |-> IdleTask]
    /\ calls = 0
    /\ out = NoOutcome
    /\ seen = NotSeen

\* initialize(): db and redis are set, buildSearchIndex is entered and issues
\* its first cache read
StartInitialize(p, i) ==
    /\ ~InFlight(task[p])
    /\ calls < MaxCalls
    /\ calls' = calls + 1
    /\ task' = [task EXCEPT ![p] = [IdleTask EXCEPT !.pc = "get_index", !.inst = i,
                                                   !.kind = "initialize"]]
    /\ UNCHANGED <<db, redis, searchIndex, indexVersion, clock, out, seen>>

\* refreshIndex(): issues the first del
StartRefresh(p, i) ==
    /\ ~InFlight(task[p])
    /\ calls < MaxCalls
    /\ calls' = calls + 1
    /\ task' = [task EXCEPT ![p] = [IdleTask EXCEPT !.pc = "del_index", !.inst = i,
                                                   !.kind = "refresh",
                                                   !.before = searchIndex[i],
                                                   !.beforeVersion = indexVersion[i],
                                                   !.beforeCache = redis]]
    /\ UNCHANGED <<db, redis, searchIndex, indexVersion, clock, out, seen>>

\* await this.redis.del('search-index')
DelIndex(p) ==
    /\ task[p].pc = "del_index"
    /\ redis' = [redis EXCEPT !.index = NoValue]
    /\ task' = [task EXCEPT ![p].pc = "del_version"]
    /\ UNCHANGED <<db, searchIndex, indexVersion, clock, calls, out, seen>>

\* await this.redis.del('search-index-version'); this.searchIndex.clear();
\* buildSearchIndex is entered
DelVersion(p) ==
    /\ task[p].pc = "del_version"
    /\ redis' = [redis EXCEPT !.version = 0]
    /\ searchIndex' = [searchIndex EXCEPT ![task[p].inst] = <<>>]
    /\ seen' = Forget(task[p].inst)
    /\ task' = [task EXCEPT ![p].pc = "get_index"]
    /\ UNCHANGED <<db, indexVersion, clock, calls, out>>

\* const cachedIndex = await this.redis.get('search-index')
GetIndex(p) ==
    /\ task[p].pc = "get_index"
    /\ task' = [task EXCEPT ![p].pc = "get_version", ![p].cachedIndex = redis.index]
    /\ UNCHANGED <<db, redis, searchIndex, indexVersion, clock, calls, out, seen>>

\* a cache-hit test that looks at the cached index only
GetVersion_IndexOnly(p) ==
    /\ task[p].pc = "get_version"
    /\ IF task[p].cachedIndex.present
       THEN /\ searchIndex' = [searchIndex EXCEPT
                                 ![task[p].inst] = JSONparse(task[p].cachedIndex)]
            /\ indexVersion' = [indexVersion EXCEPT ![task[p].inst] = redis.version]
            /\ seen' = Forget(task[p].inst)
            /\ out' = BuildOutcome([task[p] EXCEPT !.cachedVersion = redis.version],
                                   FALSE, TRUE, JSONparse(task[p].cachedIndex),
                                   redis.version, redis)
            /\ task' = [task EXCEPT ![p] = IdleTask]
       ELSE /\ task' = [task EXCEPT ![p].pc = "find_codesystems",
                                    ![p].cachedVersion = redis.version]
            /\ UNCHANGED <<searchIndex, indexVersion, seen, out>>
    /\ UNCHANGED <<db, redis, clock, calls>>

\* const cachedVersion = await this.redis.get('search-index-version'), then
\* the cache-hit branch or the first store read is issued
GetVersion(p) ==
    /\ task[p].pc = "get_version"
    /\ IF task[p].cachedIndex.present /\ redis.version # 0
       THEN /\ searchIndex' = [searchIndex EXCEPT
                                 ![task[p].inst] = JSONparse(task[p].cachedIndex)]
            /\ indexVersion' = [indexVersion EXCEPT ![task[p].inst] = redis.version]
            /\ seen' = Forget(task[p].inst)
            /\ out' = BuildOutcome([task[p] EXCEPT !.cachedVersion = redis.version],
                                   FALSE, TRUE, JSONparse(task[p].cachedIndex),
                                   redis.version, redis)
            /\ task' = [task EXCEPT ![p] = IdleTask]
       ELSE /\ task' = [task EXCEPT ![p].pc = "find_codesystems",
                                    ![p].cachedVersion = redis.version]
            /\ UNCHANGED <<searchIndex, indexVersion, seen, out>>
    /\ UNCHANGED <<db, redis, clock, calls>>

\* the CodeSystems arrive and are written into the live index;
\* enhanceWithMappings is entered
FindCodeSystems(p) ==
    /\ task[p].pc = "find_codesystems"
    /\ searchIndex' = [searchIndex EXCEPT
                         ![task[p].inst] = PopulateIndex(@, db.codesystems)]
    /\ seen' = Forget(task[p].inst)
    /\ task' = [task EXCEPT ![p].pc = "find_conceptmaps",
                            ![p].codeSystems = ReadOk(db.codesystems)]
    /\ UNCHANGED <<db, redis, indexVersion, clock, calls, out>>

\* what follows enhanceWithMappings: the index (as left by it) is copied for
\* the cache, the version stamp is taken, the first cache write is issued
AfterMappings(p, index, now, conceptMaps) ==
    /\ searchIndex' = [searchIndex EXCEPT ![task[p].inst] = index]
    /\ indexVersion' = [indexVersion EXCEPT ![task[p].inst] = now]
    /\ clock' = now
    /\ seen' = Forget(task[p].inst)
    /\ task' = [task EXCEPT ![p].pc = "set_index", ![p].indexArray = index,
                            ![p].conceptMaps = conceptMaps]
    /\ UNCHANGED <<db, redis, calls, out>>

\* new Date().toISOString(): every reading is later than the one before
Now == {clock + 1}

\* the ConceptMaps arrive and their mappings are attached
FindConceptMaps(p) ==
    /\ task[p].pc = "find_conceptmaps"
    /\ \E now \in Now :
          AfterMappings(p, enhanceWithMappings(searchIndex[task[p].inst], db.conceptmaps),
                        now, ReadOk(db.conceptmaps))

\* the ConceptMap read fails: enhanceWithMappings logs the error and returns
FindConceptMapsFails(p) ==
    /\ task[p].pc = "find_conceptmaps"
    /\ \E now \in Now : AfterMappings(p, searchIndex[task[p].inst], now, ReadFailed)

\* await this.redis.setEx('search-index', 7200, JSON.stringify(indexArray));
\* the next write is issued with the instance's version stamp of that moment
SetIndex(p) ==
    /\ task[p].pc = "set_index"
    /\ redis' = [redis EXCEPT !.index = JSONstringify(task[p].indexArray)]
    /\ task' = [task EXCEPT ![p].pc = "set_version",
                            ![p].versionArg = indexVersion[task[p].inst],
                            ![p].writes = @ + 1]
    /\ UNCHANGED <<db, searchIndex, indexVersion, clock, calls, out, seen>>

\* await this.redis.setEx('search-index-version', 7200, this.indexVersion)
SetVersion(p) ==
    /\ task[p].pc = "set_version"
    /\ redis' = [redis EXCEPT !.version = task[p].versionArg]
    /\ out' = BuildOutcome([task[p] EXCEPT !.writes = @ + 1], FALSE, FALSE,
                           searchIndex[task[p].inst], indexVersion[task[p].inst],
                           redis')
    /\ task' = [task EXCEPT ![p] = IdleTask]
    /\ UNCHANGED <<db, searchIndex, indexVersion, clock, calls, seen>>

\* a cache call or the CodeSystem read fails: the error is rethrown to the
\* caller of initialize / refreshIndex
CallFails(p) ==
    /\ task[p].pc \in {"del_index", "del_version", "get_index", "get_version",
                       "find_codesystems", "set_index", "set_version"}
    /\ out' = BuildOutcome([task[p] EXCEPT !.codeSystems =
                                IF task[p].pc = "find_codesystems" THEN ReadFailed ELSE @],
                           TRUE, FALSE, searchIndex[task[p].inst],
                           indexVersion[task[p].inst], redis)
    /\ task' = [task EXCEPT ![p] = IdleTask]
    /\ UNCHANGED <<db, redis, searchIndex, indexVersion, clock, calls, seen>>

-----------------------------------------------------------------------------
(* Requests served while builds are in flight *)

\* the indexes held, when refreshIndex was called, by the refreshes in flight
\* on instance i
RefreshingFrom(i) ==
    { task[p].before : p \in {q \in Procs : /\ InFlight(task[q])
                                            /\ task[q].kind = "refresh"
                                            /\ task[q].inst = i} }

SearchOutcome(i, query, options, r) ==
    [ op |-> "searchTerms", inst |-> i, query |-> query, options |-> options,
      bundle |-> r.bundle, scored |-> r.scored, fuzzyCalls |-> r.fuzzyCalls,
      scanned |-> searchIndex[i], refreshingFrom |-> RefreshingFrom(i) ]

\* the first search since an index write is kept; a repetition of it and any
\* other request made since are noted
Remember(i, query, options, bundle) ==
    IF ~seen.valid
    THEN [valid |-> TRUE, inst |-> i, query |-> query, options |-> options,
          bundle |-> bundle, others |-> FALSE, again |-> FALSE]
    ELSE IF seen.inst = i /\ seen.query = query /\ seen.options = options
    THEN [seen EXCEPT !.again = TRUE]
    ELSE [seen EXCEPT !.others = TRUE]

Noted == IF seen.valid THEN [seen EXCEPT !.others = TRUE] ELSE seen

\* every entry with the score the query gives it
ScoredIndex(index, query) ==
    [k \in 1..Len(index) |->
        [entry |-> index[k],
         score |-> calculateRelevanceScore(trim(toLowerCase(query)), index[k], FALSE)]]

\* searchTerms sorting the live index instead of its own result list
SearchTermsCall_SortsIndex(i, query, options) ==
    LET r == searchTerms(searchIndex[i], query, options)
        sorted == SortByScore(ScoredIndex(searchIndex[i], query))
    IN /\ out' = SearchOutcome(i, query, options, r)
       /\ searchIndex' = [searchIndex EXCEPT ![i] = [k \in 1..Len(sorted) |-> sorted[k].entry]]
       /\ UNCHANGED <<db, redis, indexVersion, task, clock, calls>>

\* searchTerms has no await: it runs to completion in one step
SearchTermsCall(i, query, options) ==
    LET r == searchTerms(searchIndex[i], query, options)
    IN /\ out' = SearchOutcome(i, query, options, r)
       /\ UNCHANGED <<db, redis, searchIndex, indexVersion, task, clock, calls>>

\* a search whose outcome is kept for comparison with later ones
ServeSearch(i, query, options) ==
    /\ SearchTermsCall(i, query, options)
    /\ seen' = Remember(i, query, options, searchTerms(searchIndex[i], query, options).bundle)

TranslateCall(sourceSystem, sourceCode, targetSystem) ==
    /\ out' = [ op |-> "translateConcept", sourceSystem |-> sourceSystem,
                sourceCode |-> sourceCode, targetSystem |-> targetSystem,
                outcome |-> translateConcept(db, sourceSystem, sourceCode, targetSystem) ]
    /\ seen' = Noted
    /\ UNCHANGED <<db, redis, searchIndex, indexVersion, task, clock, calls>>

ExpandCall(url, filter, count, offset) ==
    /\ out' = [ op |-> "expandValueSet", url |-> url, filter |-> filter,
                count |-> count, offset |-> offset,
                outcome |-> expandValueSet(db, url, filter, count, offset) ]
    /\ seen' = Noted
    /\ UNCHANGED <<db, redis, searchIndex, indexVersion, task, clock, calls>>

\* getIndexStats: the counts are taken synchronously, the cached version
\* stamp is read after them
StatsCall(i) ==
    /\ out' = [ op |-> "getIndexStats", inst |-> i,
                totalEntries |-> Len(searchIndex[i]),
                indexVersion |-> indexVersion[i],
                systemBreakdown |->
                    [t \in {searchIndex[i][k].systemType : k \in 1..Len(searchIndex[i])} |->
                        Cardinality({k \in 1..Len(searchIndex[i]) :
                                        searchIndex[i][k].systemType = t})],
                lastRefresh |-> redis.version ]
    /\ seen' = Noted
    /\ UNCHANGED <<db, redis, searchIndex, indexVersion, task, clock, calls>>

\* how a searchWithDualCoding call ended: the bundle of composed records, next
\* to the entries of the search it composed them from
DualOutcome(i, query, limit, hits, records, failedReads) ==
    [ op |-> "searchWithDualCoding", inst |-> i, query |-> query, limit |-> limit,
      threw |-> FALSE, hits |-> hits, failedReads |-> failedReads,
      bundle |-> [type |-> "searchset", total |-> Len(records), entry |-> records] ]

\* searchWithDualCoding: the search restricted to the national vocabulary is
\* made; with no hit the call returns, else the first ConceptMap read is issued
StartDual(p, i, query, limit) ==
    LET hits == searchTerms(searchIndex[i], query,
                            SearchOptions(<<>>, "namaste", limit, FALSE)).bundle.entry
    IN /\ ~InFlight(task[p])
       /\ IF hits = <<>>
          THEN /\ out' = DualOutcome(i, query, limit, hits, <<>>, 0)
               /\ UNCHANGED task
          ELSE /\ task' = [task EXCEPT ![p] = [IdleTask EXCEPT
                                                 !.pc = "find_mappings", !.inst = i,
                                                 !.kind = "dual", !.query = query,
                                                 !.limit = limit, !.hits = hits]]
               /\ UNCHANGED out
       /\ UNCHANGED <<db, redis, searchIndex, indexVersion, clock, calls, seen>>

\* the record for the next hit is pushed with the mappings given; after the
\* last hit the bundle is returned, else the next ConceptMap read is issued
PushRecord(p, mappings, failed) ==
    LET t == task[p]
        records == Append(t.records, DualRecord(t.hits[Len(t.records) + 1], mappings))
    IN /\ IF Len(records) = Len(t.hits)
          THEN /\ out' = DualOutcome(t.inst, t.query, t.limit, t.hits, records,
                                     t.failedReads + failed)
               /\ task' = [task EXCEPT ![p] = IdleTask]
          ELSE /\ task' = [task EXCEPT ![p].records = records,
                                       ![p].failedReads = @ + failed]
               /\ UNCHANGED out
       /\ UNCHANGED <<db, redis, searchIndex, indexVersion, clock, calls, seen>>

\* await this.findMappingsForCode(coding.system, coding.code)
FindMappings(p) ==
    /\ task[p].pc = "find_mappings"
    /\ LET hit == task[p].hits[Len(task[p].records) + 1]
       IN PushRecord(p, findMappingsForCode(db.conceptmaps, hit.system, hit.code), 0)

\* the ConceptMap read of findMappingsForCode fails: its catch logs the error
\* and returns no mappings
FindMappingsFails(p) ==
    /\ task[p].pc = "find_mappings"
    /\ PushRecord(p, NoMappings, 1)

\* an ingestion run replaces the stored vocabulary
UpdateStore ==
    /\ db = StoreV1
    /\ db' = StoreV2
    /\ UNCHANGED <<redis, searchIndex, indexVersion, task, clock, calls, out, seen>>

\* the TTL of a cache key runs out
ExpireIndexKey ==
    /\ redis.index.present
    /\ redis' = [redis EXCEPT !.index = NoValue]
    /\ UNCHANGED <<db, searchIndex, indexVersion, task, clock, calls, out, seen>>

ExpireVersionKey ==
    /\ redis.version # 0
    /\ redis' = [redis EXCEPT !.version = 0]
    /\ UNCHANGED <<db, searchIndex, indexVersion, task, clock, calls, out, seen>>

\* the inputs of the requests
LifeQueries == { <<"a", "b">>, <<"b">> }
LifeOptions == { SearchOptions(<<>>, Null, 1, FALSE) }

\* the steps of the call in flight as p
BuildStep(p) ==
    \/ DelIndex(p)
    \/ DelVersion(p)
    \/ GetIndex(p)
    \/ GetVersion(p)
    \/ FindCodeSystems(p)
    \/ FindConceptMaps(p)
    \/ SetIndex(p)
    \/ SetVersion(p)

\* initialize and refreshIndex calls on both instances, with searches on the
\* router's instance and ingestion going on
Next ==
    \/ \E p \in Procs, i \in Instances : StartInitialize(p, i)
    \/ \E p \in Procs, i \in Instances : StartRefresh(p, i)
    \/ \E p \in Procs : BuildStep(p)
    \/ \E q \in LifeQueries, o \in LifeOptions :
          SearchTermsCall("router", q, o) /\ UNCHANGED seen
    \/ UpdateStore

Spec == Init /\ [][Next]_vars

\* the router's instance serving requests of every kind while it is
\* initialized and refreshed
ServeInit ==
    /\ Init
    /\ Loaded

ServeNext ==
    \/ StartInitialize("p1", "router")
    \/ StartRefresh("p1", "router")
    \/ BuildStep("p1")
    \/ \E q \in LifeQueries, o \in LifeOptions : ServeSearch("router", q, o)
    \/ TranslateCall(NamasteUrl, K1.code, Tm2Url)
    \/ ExpandCall(NamasteVsUrl, <<>>, 1, 0)
    \/ StatsCall("router")
    \/ UpdateStore

SpecServe == ServeInit /\ [][ServeNext]_vars

-----------------------------------------------------------------------------
(* searchTerms over the indexes built from small vocabularies *)

MaxConcepts == 4
MaxLimit == 2

P1 == Concept(<<"a", "b">>, <<"A", "b">>, <<>>, <<>>)
P2 == Concept(<<"a", "b", "b">>, <<"b", "a", "b">>, <<"b", "b">>,
              <<[code |-> "category", valueString |-> <<"B", "b">>, valueCode |-> <<>>]>>)
P3 == Concept(<<"b", "a">>, <<"a", "b", "b", "b">>, <<>>, <<>>)

ConceptPool == {P1, P2, P3}

SeqsUpTo(S, n) == UNION {[1..k -> S] : k \in 0..n}

\* a national and an international vocabulary holding up to MaxConcepts
\* concepts between them, no mappings
SearchStores ==
    { [ codesystems |-> << CodeSystem(NamasteUrl, "NAMASTE", ns),
                           CodeSystem(Tm2Url, "ICD11-TM2", ts) >>,
        conceptmaps |-> <<>>,
        valuesets   |-> <<>> ] :
      <<ns, ts>> \in { pair \in SeqsUpTo(ConceptPool, MaxConcepts)
                                \X SeqsUpTo(ConceptPool, MaxConcepts) :
                          Len(pair[1]) + Len(pair[2]) <= MaxConcepts } }

SearchQueries ==
    { <<"a", "b">>, <<"A", "B", " ">>, <<"a", "b", "a", "b">>, <<"b", "b">>, <<"b", " ">> }

SearchOptionSets ==
    { SearchOptions(f, t, l, z) :
        f \in {<<>>, <<"icd">>}, t \in {Null, "namaste"}, l \in 0..MaxLimit, z \in BOOLEAN }

\* every variable the search does not touch keeps its constructed value
Quiescent ==
    /\ redis = [index |-> NoValue, version |-> 0]
    /\ indexVersion = [i \in Instances |-> 0]
    /\ task = [p \in Procs |-> IdleTask]
    /\ clock = 0
    /\ calls = 0
    /\ out = NoOutcome
    /\ seen = NotSeen

SearchInit ==
    /\ db \in SearchStores
    /\ searchIndex = [i \in Instances |-> IF i = "router" THEN BuiltFrom(db) ELSE <<>>]
    /\ Quiescent

\* one call on each index
SearchNext ==
    /\ out = NoOutcome
    /\ \E q \in SearchQueries, o \in SearchOptionSets :
          SearchTermsCall("router", q, o) /\ UNCHANGED seen

SpecSearch == SearchInit /\ [][SearchNext]_vars

-----------------------------------------------------------------------------
(* calculateRelevanceScore on pairs of entries that differ in their code *)

ScoreCodes == { <<"a", "b">>, <<"A", "B">>, <<"a", "b", "b">>, <<"b", "a", "b">>, <<"b", "a">> }
ScoreDisplays == { <<"a", "b">>, <<"A", "b", "b">>, <<"b", "a">> }
ScoreDefinitions == { <<>>, <<"a", "b">>, <<"b", "a", "b">> }
ScoreProperties ==
    { <<>>,
      <<[code |-> "category", valueString |-> <<"a", "b">>, valueCode |-> <<>>]>>,
      <<[code |-> "category", valueString |-> <<"a", "b", "b">>,
         valueCode |-> <<"B", "A", "B">>]>> }
ScoreQueries == { <<"a", "b">>, <<"A", "B", " ">>, <<"b", "a">> }

\* both entries are scored as the scan of searchTerms scores them
ScoreCall(query, fuzzy, codeSystem, first, second) ==
    LET searchTerm == trim(toLowerCase(query))
        e1 == createSearchEntry(first, codeSystem)
        e2 == createSearchEntry(second, codeSystem)
    IN /\ out' = [ op |-> "calculateRelevanceScore", searchTerm |-> searchTerm,
                   fuzzy |-> fuzzy, first |-> e1, second |-> e2,
                   firstScore  |-> calculateRelevanceScore(searchTerm, e1, fuzzy),
                   secondScore |-> calculateRelevanceScore(searchTerm, e2, fuzzy) ]
       /\ UNCHANGED <<db, redis, searchIndex, indexVersion, task, clock, calls, seen>>

ScoreInit ==
    /\ db = StoreV1
    /\ searchIndex = [i \in Instances |-> <<>>]
    /\ Quiescent

\* two entries that differ in their code only
ScoreCodePair ==
    /\ out = NoOutcome
    /\ \E q \in ScoreQueries, z \in BOOLEAN, url \in {NamasteUrl, Tm2Url},
          c1 \in ScoreCodes, c2 \in ScoreCodes, d \in ScoreDisplays,
          f \in ScoreDefinitions, pr \in ScoreProperties :
          ScoreCall(q, z, CodeSystem(url, "CS", <<>>),
                    Concept(c1, d, f, pr), Concept(c2, d, f, pr))

\* two entries that differ in their definition only
ScoreDefinitionPair ==
    /\ out = NoOutcome
    /\ \E q \in ScoreQueries, z \in BOOLEAN, url \in {NamasteUrl, Tm2Url},
          c \in ScoreCodes, d \in ScoreDisplays,
          f1 \in ScoreDefinitions, f2 \in ScoreDefinitions, pr \in ScoreProperties :
          ScoreCall(q, z, CodeSystem(url, "CS", <<>>),
                    Concept(c, d, f1, pr), Concept(c, d, f2, pr))

ScoreNext ==
    \/ ScoreCodePair
    \/ ScoreDefinitionPair

SpecScore == ScoreInit /\ [][ScoreNext]_vars

-----------------------------------------------------------------------------
(* translateConcept and expandValueSet over small stores *)

MaxGroups == 2
MaxElements == 1
MaxCount == 2
MaxOffset == 5

C1Code == <<"a", "b">>
C2Code == <<"b", "a">>
TargetA == Target(<<"T", "a">>, <<"a">>, "equivalent")
TargetB == Target(<<"T", "b">>, <<"b">>, "wider")
TargetC == Target(<<"T", "c">>, <<"a", "b">>, "equivalent")

FhirElements ==
    { Element(C1Code, List(<<TargetA>>)),
      Element(C1Code, List(<<TargetB>>)),
      Element(C1Code, List(<<TargetB, TargetA>>)),
      Element(C2Code, List(<<TargetC, TargetB>>)),
      Element(C1Code, Absent) }

FhirGroups ==
    { Group(src, Tm2Url, el) :
        src \in {NamasteUrl, Tm2Url},
        el \in {List(es) : es \in SeqsUpTo(FhirElements, MaxElements)} \cup {Absent, Malformed} }

\* no ConceptMap, or one from the national vocabulary to the TM module
TranslateStores ==
    { [ codesystems |-> <<>>, conceptmaps |-> cms, valuesets |-> <<>> ] :
        cms \in {<<>>} \cup { <<ConceptMap(NamasteUrl, Tm2Url, gs)>> :
                                gs \in SeqsUpTo(FhirGroups, MaxGroups) } }

OtherVsUrl == <<"terminology.ayush.gov.in", "ValueSet", "other">>

\* the ValueSet absent, without include, with an include naming no system,
\* including the national vocabulary, or including a vocabulary not stored
FhirValueSets ==
    { <<>>,
      <<ValueSet(NamasteVsUrl, <<>>)>>,
      <<ValueSet(NamasteVsUrl, <<[system |-> <<>>, concept |-> <<>>]>>)>>,
      <<ValueSet(NamasteVsUrl, <<[system |-> NamasteUrl, concept |-> <<>>]>>)>>,
      <<ValueSet(NamasteVsUrl, <<[system |-> BioUrl, concept |-> <<>>]>>)>> }

ExpandStores ==
    { [ codesystems |-> <<CodeSystem(NamasteUrl, "NAMASTE", cs)>>,
        conceptmaps |-> <<>>, valuesets |-> vs ] :
        cs \in SeqsUpTo(ConceptPool, MaxConcepts), vs \in FhirValueSets }

ExpandFilters == { <<>>, <<"a", "b">>, <<"B", "B">> }

TranslateInit ==
    /\ db \in TranslateStores
    /\ searchIndex = [i \in Instances |-> <<>>]
    /\ Quiescent

\* one translation on each store
TranslateNext ==
    /\ out = NoOutcome
    /\ \E sourceCode \in {C1Code, C2Code}, targetSystem \in {Tm2Url, BioUrl} :
          TranslateCall(NamasteUrl, sourceCode, targetSystem)

SpecTranslate == TranslateInit /\ [][TranslateNext]_vars

ExpandInit ==
    /\ db \in ExpandStores
    /\ searchIndex = [i \in Instances |-> <<>>]
    /\ Quiescent

\* one expansion on each store
ExpandNext ==
    /\ out = NoOutcome
    /\ \E url \in {NamasteVsUrl, OtherVsUrl}, f \in ExpandFilters,
          count \in 0..MaxCount, offset \in 0..MaxOffset :
          ExpandCall(url, f, count, offset)

SpecExpand == ExpandInit /\ [][ExpandNext]_vars

-----------------------------------------------------------------------------
(* Builds over stores whose ConceptMaps vary, with store and cache faults *)

MaxMaps == 2

B1 == Concept(<<"a", "b", "a">>, <<"b", "b">>, <<>>, <<>>)

\* groups of the national vocabulary: K1 mapped to the TM module, K1 mapped to
\* biomedicine, a group whose element field is no array, and a group holding
\* an element for K2 whose target field is no array
BuildGroups ==
    { Group(NamasteUrl, Tm2Url, List(<<MapTo(K1.code, T1)>>)),
      Group(NamasteUrl, BioUrl, List(<<MapTo(K1.code, B1)>>)),
      Group(NamasteUrl, Tm2Url, Malformed),
      Group(NamasteUrl, Tm2Url, List(<<Element(K2.code, Malformed)>>)) }

BuildMaps ==
    { ConceptMap(NamasteUrl, Tm2Url, gs) : gs \in SeqsUpTo(BuildGroups, MaxGroups) }

BuildStores ==
    { [ codesystems |-> << CodeSystem(NamasteUrl, "NAMASTE", <<K1, K2>>),
                           CodeSystem(Tm2Url, "ICD11-TM2", <<T1, T2>>) >>,
        conceptmaps |-> cms,
        valuesets   |-> <<>> ] : cms \in SeqsUpTo(BuildMaps, MaxMaps) }

BuildInit ==
    /\ db \in BuildStores
    /\ Constructed
    /\ task = [p \in Procs |-> IdleTask]
    /\ calls = 0
    /\ out = NoOutcome
    /\ seen = NotSeen

\* one call at a time on a fresh instance, every await of which may fail:
\* initialize, refreshIndex and searchWithDualCoding
BuildNext ==
    \/ StartInitialize("p1", "admin")
    \/ StartRefresh("p1", "admin")
    \/ BuildStep("p1")
    \/ FindConceptMapsFails("p1")
    \/ CallFails("p1")
    \/ \E q \in LifeQueries : StartDual("p1", "admin", q, MaxLimit + 1)
    \/ FindMappings("p1")
    \/ FindMappingsFails("p1")

SpecBuild == BuildInit /\ [][BuildNext]_vars

-----------------------------------------------------------------------------
(* A refresh of the router's instance while a fresh instance initializes *)

RefreshInit ==
    /\ Init
    /\ Loaded

\* the two instances share the cache and the store, which ingestion updates
RefreshNext ==
    \/ StartRefresh("p1", "router")
    \/ StartInitialize("p2", "admin")
    \/ \E p \in Procs : BuildStep(p)
    \/ UpdateStore

SpecRefresh == RefreshInit /\ [][RefreshNext]_vars

-----------------------------------------------------------------------------
(* Calls made one after another, with ingestion and the cache TTL at work *)

\* a cache key reaches its TTL; the index key written by a call still in
\* flight is younger than that
CacheExpires ==
    \/ /\ \A p \in Procs : task[p].pc # "set_version"
       /\ ExpireIndexKey
    \/ ExpireVersionKey

CacheNext ==
    \/ \E i \in Instances : StartInitialize("p1", i)
    \/ StartRefresh("p1", "router")
    \/ BuildStep("p1")
    \/ UpdateStore
    \/ CacheExpires

SpecCache == Init /\ [][CacheNext]_vars

-----------------------------------------------------------------------------
(* Two instances that are initialized over an empty cache at the same time *)

CollideInit ==
    /\ Init
    /\ Constructed

\* the steps of buildSearchIndex as entered from initialize()
InitializeStep(p) ==
    \/ GetIndex(p)
    \/ GetVersion(p)
    \/ FindCodeSystems(p)
    \/ FindConceptMaps(p)
    \/ SetIndex(p)
    \/ SetVersion(p)

CollideNext ==
    \/ StartInitialize("p1", "router")
    \/ StartInitialize("p2", "admin")
    \/ \E p \in Procs : InitializeStep(p)
    \/ UpdateStore

SpecCollide == CollideInit /\ [][CollideNext]_vars

-----------------------------------------------------------------------------
(* searchWithDualCoding over ConceptMaps with several groups and targets *)

\* groups with an element for K1: to the TM module with two targets, to
\* biomedicine with a wider target before the equivalent one, to the TM
\* module again with another target, and one whose source is the TM module
DualGroups ==
    { Group(NamasteUrl, Tm2Url,
            List(<<Element(K1.code, List(<<Target(T1.code, T1.display, "equivalent"),
                                           Target(T2.code, T2.display, "wider")>>))>>)),
      Group(NamasteUrl, BioUrl,
            List(<<Element(K1.code, List(<<Target(B1.code, B1.display, "wider"),
                                           Target(T2.code, T2.display, "equivalent")>>))>>)),
      Group(NamasteUrl, Tm2Url, List(<<MapTo(K1.code, T2)>>)),
      Group(Tm2Url, Tm2Url, List(<<MapTo(K1.code, T2)>>)) }

\* a ConceptMap is filed under the target of its first group
DualMaps ==
    { ConceptMap(NamasteUrl, IF gs = <<>> THEN Tm2Url ELSE gs[1].target, gs) :
        gs \in SeqsUpTo(DualGroups, MaxGroups) }

BioMap ==
    ConceptMap(NamasteUrl, BioUrl, <<Group(NamasteUrl, BioUrl, List(<<MapTo(K2.code, B1)>>))>>)

\* no ConceptMap, one, or one followed by the map of K2 to biomedicine
DualStores ==
    { [ codesystems |-> << CodeSystem(NamasteUrl, "NAMASTE", <<K1, K2>>),
                           CodeSystem(Tm2Url, "ICD11-TM2", <<T1, T2>>) >>,
        conceptmaps |-> cms,
        valuesets   |-> <<>> ] :
        cms \in {<<>>} \cup { <<m>> : m \in DualMaps } \cup { <<m, BioMap>> : m \in DualMaps } }

DualInit ==
    /\ db \in DualStores
    /\ searchIndex = [i \in Instances |-> IF i = "router" THEN BuiltFrom(db) ELSE <<>>]
    /\ Quiescent

\* one call on each store
DualNext ==
    \/ /\ out = NoOutcome
       /\ \E q \in LifeQueries, limit \in 1..MaxLimit : StartDual("p1", "router", q, limit)
    \/ FindMappings("p1")

SpecDual == DualInit /\ [][DualNext]_vars

-----------------------------------------------------------------------------
(* expandValueSet on value sets that list their concepts *)

\* compose.include[0].concept as createCategoryValueSets writes it
Listed(concepts) ==
    [i \in 1..Len(concepts) |-> [code |-> concepts[i].code, display |-> concepts[i].display]]

\* a category value set of one or two concepts of the national vocabulary
MemberStores ==
    { [ codesystems |-> <<CodeSystem(NamasteUrl, "NAMASTE", cs)>>,
        conceptmaps |-> <<>>,
        valuesets   |-> <<ValueSet(NamasteVsUrl,
                                   <<[system |-> NamasteUrl, concept |-> Listed(listed)]>>)>> ] :
        cs \in SeqsUpTo(ConceptPool, MaxConcepts), listed \in {<<P1>>, <<P1, P3>>} }

MemberInit ==
    /\ db \in MemberStores
    /\ searchIndex = [i \in Instances |-> <<>>]
    /\ Quiescent

\* one expansion on each store
MemberNext ==
    /\ out = NoOutcome
    /\ \E f \in ExpandFilters, count \in 0..MaxCount, offset \in 0..MaxOffset :
          ExpandCall(NamasteVsUrl, f, count, offset)

SpecMember == MemberInit /\ [][MemberNext]_vars

-----------------------------------------------------------------------------
(* Two refreshIndex calls on the router's instance, the store unchanged *)

\* both calls are made on the same SearchService
TwinNext ==
    \/ \E p \in Procs : StartRefresh(p, "router")
    \/ \E p \in Procs : BuildStep(p)

SpecTwin == RefreshInit /\ [][TwinNext]_vars

-----------------------------------------------------------------------------
(* First requests to the FHIR router: the lazy initialization middleware *)

\* searchService.db is set by the first statement of initialize(); in this
\* specification every call counted is an initialize() of the router's service
RouterDbSet == calls > 0

\* router.use: if (!searchService.db) await searchService.initialize();
\* otherwise next() runs the search handler at once
RouterUse(p, query, options) ==
    IF ~RouterDbSet
    THEN StartInitialize(p, "router")
    ELSE /\ ~InFlight(task[p])
         /\ SearchTermsCall("router", query, options)
         /\ UNCHANGED seen

\* the services as constructed, over either content of the store
LazyInit ==
    /\ db \in Stores
    /\ Constructed
    /\ task = [p \in Procs |-> IdleTask]
    /\ calls = 0
    /\ out = NoOutcome
    /\ seen = NotSeen

\* requests arrive while the first one initializes the service; any await of
\* the initial build may fail
LazyNext ==
    \/ \E p \in Procs, q \in LifeQueries, t \in {Null, "namaste"} :
          RouterUse(p, q, SearchOptions(<<>>, t, MaxLimit, FALSE))
    \/ \E p \in Procs : InitializeStep(p)
    \/ \E p \in Procs : CallFails(p)

SpecLazy == LazyInit /\ [][LazyNext]_vars

-----------------------------------------------------------------------------
(* The admin refresh route beside the router's serving instance *)

\* router.post('/refresh-search-index') and the tail of the NAMASTE
\* ingestion: const searchService = new SearchService();
\* await searchService.initialize(); await searchService.refreshIndex();
\* the instance is the handler's own, not the one the FHIR router holds
RefreshSearchIndex(p) ==
    \/ calls = 0 /\ StartInitialize(p, "admin")
    \/ calls = 1 /\ StartRefresh(p, "admin")

\* the handler has returned: both of its calls were made and have ended
RefreshCompleted == calls = 2 /\ \A p \in Procs : ~InFlight(task[p])

\* one admin refresh while the loaded router serves searches and ingestion
\* changes the store
VisibleNext ==
    \/ RefreshSearchIndex("p1")
    \/ BuildStep("p1")
    \/ UpdateStore
    \/ \E q \in LifeQueries, t \in {Null, "namaste"} :
          /\ SearchTermsCall("router", q, SearchOptions(<<>>, t, MaxLimit, FALSE))
          /\ UNCHANGED seen

SpecVisible == RefreshInit /\ [][VisibleNext]_vars

-----------------------------------------------------------------------------
(* Properties of the serving instance (SpecServe) *)

\* the indexes a complete build yields from some content of the store
CompleteIndexes == {BuiltFrom(s) : s \in Stores}

\* C1 (rebuild atomicity): a search made while a refreshIndex call is in flight
\* on the same SearchService scans either the index as it was when the refresh
\* started or a completely rebuilt index (all entries, mappings attached); never
\* a cleared or half-built one.
C1_RebuildAtomicity ==
    (out.op = "searchTerms" /\ out.refreshingFrom # {})
        => out.scanned \in (out.refreshingFrom \cup CompleteIndexes)

\* the <<system, code, score>> triples of a bundle, in order
Triples(bundle) ==
    [k \in 1..Len(bundle.entry) |->
        <<bundle.entry[k].system, bundle.entry[k].code, bundle.entry[k].relevanceScore>>]

-----------------------------------------------------------------------------
(* Properties of searchTerms (SpecSearch) *)

EntryAt(key) ==
    LET index == searchIndex[out.inst]
    IN index[FindIndex({k \in 1..Len(index) : KeyOf(index[k]) = key})]

SearchTermOf(query) == trim(toLowerCase(query))

\* the score under the Relevance Scorer rules, system-type boost included
RuleScore(searchTerm, entry) == TextScore(searchTerm, entry) + NamasteBoost(entry)

C6_TotalAtMostThreeTimesLimit ==
    out.op = "searchTerms" => out.bundle.total <= 3 * out.options.limit

\* C9 (invalid query outcome): a query of trimmed length under 2 is answered
\* with total 0, no entries and a reason, and no entry is scored for it; a
\* query of trimmed length 2 or more is answered without such a reason.
C9_InvalidQueryOutcome ==
    out.op = "searchTerms" =>
        IF Len(trim(out.query)) < 2
        THEN /\ out.bundle.total = 0
             /\ out.bundle.entry = <<>>
             /\ out.bundle.issue # <<>>
             /\ out.scored = <<>>
        ELSE out.bundle.issue = <<>>

\* a short query put to an index whose entries all contain it
C9_Witness ==
    /\ out.op = "searchTerms"
    /\ Len(trim(out.query)) < 2
    /\ Len(out.query) >= 2
    /\ searchIndex[out.inst] # <<>>
    /\ out.bundle.issue # <<>>

-----------------------------------------------------------------------------
(* Properties of calculateRelevanceScore (SpecScore) *)

\* the first entry's code is the query, the second's merely contains it
ExactAgainstContains ==
    /\ out.op = "calculateRelevanceScore"
    /\ Len(out.searchTerm) >= 2
    /\ toLowerCase(out.first.code) = out.searchTerm
    /\ toLowerCase(out.second.code) # out.searchTerm
    /\ includes(toLowerCase(out.second.code), out.searchTerm)

\* C8 (score monotonicity): of two entries alike in display, definition,
\* properties and system type, the one whose code equals the query scores
\* strictly higher than the one whose code strictly contains it.
C8_ExactCodeScoresHigher ==
    ExactAgainstContains => out.firstScore > out.secondScore

\* the case in which the search-term rule favours the second entry: a property
\* value equal to the query is one of the first entry's own terms, but a
\* further matching term of the second
C8_Witness ==
    /\ ExactAgainstContains
    /\ PropertyScore(out.searchTerm, out.second) > PropertyScore(out.searchTerm, out.first)

-----------------------------------------------------------------------------
(* Properties of translateConcept (SpecTranslate) and expandValueSet (SpecExpand) *)

\* the ConceptMap translateConcept consults for the call in out
MapOf(o) ==
    db.conceptmaps[FindConceptMap(db.conceptmaps, o.sourceSystem, o.targetSystem)]

HasMap(o) == FindConceptMap(db.conceptmaps, o.sourceSystem, o.targetSystem) # 0

WellFormed(conceptMap) ==
    \A g \in 1..Len(conceptMap.group) :
        /\ conceptMap.group[g].element.kind # "malformed"
        /\ \A e \in 1..Len(conceptMap.group[g].element.items) :
              conceptMap.group[g].element.items[e].target.kind # "malformed"

\* the mapping elements for the call's source code, in the groups whose source
\* is the call's source system
ElementsFor(o) ==
    { el \in UNION { Range(MapOf(o).group[g].element.items) :
                        g \in { h \in 1..Len(MapOf(o).group) :
                                  MapOf(o).group[h].source = o.sourceSystem } } :
        el.code = o.sourceCode }

FirstTargetEquivalent(el) ==
    /\ el.target.items # <<>>
    /\ el.target.items[1].equivalence = "equivalent"

HasEquivalent(el) ==
    \E t \in 1..Len(el.target.items) : el.target.items[t].equivalence = "equivalent"

\* a code has at most one element in a group
OneElementPerCode(conceptMap) ==
    \A g \in 1..Len(conceptMap.group) :
        \A e, f \in 1..Len(conceptMap.group[g].element.items) :
            conceptMap.group[g].element.items[e].code =
                conceptMap.group[g].element.items[f].code => e = f

\* C2 (translation totality, success): when the ConceptMap holds, in some group
\* whose source is the source system, an element for the code whose first target
\* is equivalent, translateConcept returns result=true with such a target's code
\* and display, equivalence 'equivalent' and system = targetSystem; also when
\* several groups of the map have that source.
C2_TranslationTotality ==
    ( /\ out.op = "translateConcept"
      /\ HasMap(out)
      /\ WellFormed(MapOf(out))
      /\ OneElementPerCode(MapOf(out))
      /\ \E el \in ElementsFor(out) : FirstTargetEquivalent(el) )
        => /\ ~out.outcome.threw
           /\ out.outcome.value.result
           /\ out.outcome.value.equivalence = "equivalent"
           /\ out.outcome.value.system = out.targetSystem
           /\ \E el \in ElementsFor(out) :
                 /\ FirstTargetEquivalent(el)
                 /\ out.outcome.value.code = el.target.items[1].code
                 /\ out.outcome.value.display = el.target.items[1].display

\* C3 (no substitution of a non-equivalent target): when the elements for the
\* code exist but none has an equivalent target, translateConcept returns
\* result=false; and whenever it returns result=true the equivalence returned is
\* 'equivalent' and the code and display are those of an equivalent target of an
\* element for the code.
C3_NeverSubstitutes ==
    ( /\ out.op = "translateConcept"
      /\ ~out.outcome.threw )
        => /\ ( /\ HasMap(out)
                /\ ElementsFor(out) # {}
                /\ \A el \in ElementsFor(out) : ~HasEquivalent(el) )
               => ~out.outcome.value.result
           /\ out.outcome.value.result
               => /\ out.outcome.value.equivalence = "equivalent"
                  /\ \E el \in ElementsFor(out) :
                        \E t \in 1..Len(el.target.items) :
                           /\ el.target.items[t].equivalence = "equivalent"
                           /\ el.target.items[t].code = out.outcome.value.code
                           /\ el.target.items[t].display = out.outcome.value.display

\* the element for the code has a wider target only, and nothing is returned
C3_Witness ==
    /\ out.op = "translateConcept"
    /\ ~out.outcome.threw
    /\ HasMap(out)
    /\ \E el \in ElementsFor(out) : el.target.items # <<>>
    /\ \A el \in ElementsFor(out) : ~HasEquivalent(el)
    /\ ~out.outcome.value.result

\* C4 (expansion pagination): the page holds min(count, total - offset) items
\* when offset < total and none otherwise, total being the reported total.
C4_PageSize ==
    ( /\ out.op = "expandValueSet"
      /\ ~out.outcome.threw )
        => Len(out.outcome.value.contains) =
              IF out.offset < out.outcome.value.total
              THEN Min2(out.count, out.outcome.value.total - out.offset)
              ELSE 0

\* a filtered expansion cut short by the end of the list: a last page, entered
\* past its start, with fewer items than asked for
C4_Witness ==
    /\ out.op = "expandValueSet"
    /\ ~out.outcome.threw
    /\ out.filter # <<>>
    /\ out.offset > 0
    /\ out.offset < out.outcome.value.total
    /\ out.count > out.outcome.value.total - out.offset
    /\ Len(out.outcome.value.contains) = out.outcome.value.total - out.offset

\* C10 (NotFound is a typed result): translateConcept and expandValueSet hand a
\* missing ConceptMap, element, equivalent target, ValueSet or referenced
\* CodeSystem back as a value; neither throws for data that is absent.
C10_NotFoundIsReturned ==
    ( /\ out.op \in {"translateConcept", "expandValueSet"}
      /\ out.outcome.threw )
        => out.outcome.error \notin
              {"ValueSet not found", "Referenced CodeSystem not found"}

-----------------------------------------------------------------------------
(* Properties of builds and of the dual-coding search (SpecBuild) *)

\* C11 (UpstreamUnavailable is surfaced): an initialize() or refreshIndex() call
\* during which the CodeSystem read or the ConceptMap read failed, and a
\* searchWithDualCoding call one of whose ConceptMap reads failed, end by
\* throwing to the caller; none returns with an index or a result built
\* without the documents that could not be read.
C11_StoreFailureSurfaces ==
    /\ ( /\ out.op \in {"initialize", "refresh"}
         /\ \/ out.codeSystems.read = "failed"
            \/ out.conceptMaps.read = "failed" )
           => out.threw
    /\ ( /\ out.op = "searchWithDualCoding"
         /\ out.failedReads > 0 )
           => out.threw

-----------------------------------------------------------------------------
(* Properties of refreshIndex next to another instance (SpecRefresh) *)

\* the index a build yields from the documents a call read
BuiltFromRead(codeSystems, conceptMaps) ==
    enhanceWithMappings(PopulateIndex(<<>>, codeSystems.docs), conceptMaps.docs)

\* C12 (refresh is unconditional): a refreshIndex() call that returns, whatever
\* another instance sharing the cache does meanwhile, has read the Concept Store
\* and leaves the in-memory index equal to a build from the documents it read;
\* it never returns through the cache-hit branch, holding a deserialized index.
C12_RefreshRebuilds ==
    ( /\ out.op = "refresh"
      /\ ~out.threw )
        => /\ ~out.hit
           /\ out.codeSystems.read = "ok"
           /\ out.conceptMaps.read = "ok"
           /\ out.index = BuiltFromRead(out.codeSystems, out.conceptMaps)

-----------------------------------------------------------------------------
(* Properties of the result list of searchTerms (SpecSearch) *)

\* where the scanned index holds the entry of a bundle entry
PositionOf(bundleEntry) ==
    FindIndex({k \in 1..Len(out.scanned) :
                 KeyOf(out.scanned[k]) = <<bundleEntry.system, bundleEntry.code>>})

\* the scored entries that got a score above 0
Candidates ==
    { k \in 1..Len(out.scored) :
        calculateRelevanceScore(SearchTermOf(out.query), EntryAt(out.scored[k]),
                                out.options.fuzzy) > 0 }

\* C13 (ordering and truncation): a searchTerms call with a valid query returns
\* its entries by non-increasing score, entries of equal score in the order the
\* index holds them, min(limit, total) of them, total being the number of
\* candidates collected by the scan.
C13_OrderedAndTruncated ==
    ( /\ out.op = "searchTerms"
      /\ Len(SearchTermOf(out.query)) >= 2 )
        => LET entry == out.bundle.entry
           IN /\ \A k \in 1..(Len(entry) - 1) :
                    /\ entry[k].relevanceScore >= entry[k + 1].relevanceScore
                    /\ entry[k].relevanceScore = entry[k + 1].relevanceScore
                          => PositionOf(entry[k]) < PositionOf(entry[k + 1])
              /\ Len(entry) = Min2(out.options.limit, out.bundle.total)
              /\ out.bundle.total = Cardinality(Candidates)

\* a result of two entries with the same score, cut to the limit while more
\* candidates had been collected
C13_Witness ==
    /\ out.op = "searchTerms"
    /\ Len(SearchTermOf(out.query)) >= 2
    /\ Len(out.bundle.entry) = 2
    /\ out.bundle.total > out.options.limit
    /\ out.bundle.entry[1].relevanceScore = out.bundle.entry[2].relevanceScore

-----------------------------------------------------------------------------
(* Properties of searchWithDualCoding (SpecBuild) *)

\* C14 (dual-coding composition): searchWithDualCoding returns one record per
\* hit of the search restricted to the national vocabulary, in the same order,
\* each with the coding of its hit, an entry of systemType namaste, and with a
\* relevanceScore equal to the relevance score the search computed for the hit.
C14_DualCodingComposition ==
    ( /\ out.op = "searchWithDualCoding"
      /\ ~out.threw )
        => /\ Len(out.bundle.entry) = Len(out.hits)
           /\ out.bundle.total = Len(out.hits)
           /\ \A k \in 1..Len(out.hits) :
                 LET record == out.bundle.entry[k]
                     hit == out.hits[k]
                 IN /\ record.namaste = Coding(hit.system, hit.code, hit.display)
                    /\ hit.systemType = "namaste"
                    /\ record.relevanceScore[1] =
                          hit.relevanceScore * record.relevanceScore[2]

-----------------------------------------------------------------------------
(* Properties of the filter of expandValueSet (SpecExpand) *)

\* the concepts of the CodeSystem named by the first include of the ValueSet
IncludedConcepts ==
    LET valueSet == db.valuesets[FindByUrl(db.valuesets, out.url)]
        system == valueSet.compose.include[1].system
    IN db.codesystems[FindByUrl(db.codesystems, system)].concept

\* code, display or definition contains the filter, whatever the case
ContainsFilter(concept, filter) ==
    \E field \in {concept.code, concept.display, concept.definition} :
        includes(toLowerCase(field), toLowerCase(filter))

Retained(filter) ==
    { k \in 1..Len(IncludedConcepts) :
        filter = <<>> \/ ContainsFilter(IncludedConcepts[k], filter) }

\* C15 (expansion filter and total): for a value set that resolves, total is the
\* number of concepts of the first include's CodeSystem that contain the filter
\* in code, display or definition, case-insensitively (all when there is no
\* filter), whatever offset and count are; the items of contains are retained
\* concepts in CodeSystem order, and carry system, code and display only.
C15_FilterAndTotal ==
    ( /\ out.op = "expandValueSet"
      /\ ~out.outcome.threw )
        => LET contains == out.outcome.value.contains
           IN /\ out.outcome.value.total = Cardinality(Retained(out.filter))
              /\ \E at \in [1..Len(contains) -> Retained(out.filter)] :
                    /\ \A k \in 1..(Len(contains) - 1) : at[k] < at[k + 1]
                    /\ \A k \in 1..Len(contains) :
                          /\ contains[k].code = IncludedConcepts[at[k]].code
                          /\ contains[k].display = IncludedConcepts[at[k]].display
              /\ \A k \in 1..Len(contains) :
                    DOMAIN contains[k] = {"system", "code", "display"}

\* a filter in capitals that retains some concepts and drops others, one of
\* them retained for its definition or code alone, and a page with items
C15_Witness ==
    /\ out.op = "expandValueSet"
    /\ ~out.outcome.threw
    /\ out.filter = <<"B", "B">>
    /\ out.outcome.value.total < Len(IncludedConcepts)
    /\ out.outcome.value.contains # <<>>
    /\ \E k \in Retained(out.filter) :
          /\ ~includes(toLowerCase(IncludedConcepts[k].display), <<"b", "b">>)
          /\ \E j \in 1..Len(out.outcome.value.contains) :
                out.outcome.value.contains[j].code = IncludedConcepts[k].code

-----------------------------------------------------------------------------
(* Properties of the mappings attached by a build (SpecBuild) *)

\* a build that read both collections and returned after its cache writes
BuildReturned ==
    /\ out.op \in {"initialize", "refresh"}
    /\ ~out.threw
    /\ ~out.hit
    /\ out.codeSystems.read = "ok"
    /\ out.conceptMaps.read = "ok"

\* the well-formed mapping elements of the ConceptMaps read, each with its
\* group: the element field of the group and the target field of the element
\* are lists
MappingElements ==
    UNION { UNION { { [group |-> cm.group[g], element |-> cm.group[g].element.items[e]] :
                        e \in { x \in 1..Len(cm.group[g].element.items) :
                                  cm.group[g].element.items[x].target.kind = "list" } } :
                    g \in { h \in 1..Len(cm.group) : cm.group[h].element.kind = "list" } } :
            cm \in Range(out.conceptMaps.docs) }

HasMalformed ==
    \E cm \in Range(out.conceptMaps.docs) : \E g \in 1..Len(cm.group) :
        \/ cm.group[g].element.kind = "malformed"
        \/ \E e \in 1..Len(cm.group[g].element.items) :
              cm.group[g].element.items[e].target.kind = "malformed"

\* the entries of the index built that a mapping element is about
EntriesFor(mapping) ==
    { k \in 1..Len(out.index) :
        KeyOf(out.index[k]) = <<mapping.group.source, mapping.element.code>> }

\* C16 (a malformed group is skipped, not fatal): a build over ConceptMaps one
\* of whose groups or elements is malformed returns, and the entry of every
\* well-formed mapping element with targets, in whatever group or ConceptMap,
\* before or after the malformed one, has mappings attached.
C16_MalformedGroupSkipped ==
    ( /\ BuildReturned
      /\ HasMalformed )
        => \A mapping \in MappingElements :
              mapping.element.target.items # <<>>
                 => \A k \in EntriesFor(mapping) : out.index[k].mappings # <<>>

\* C18 (mapping attachment at build): after a build from well-formed
\* ConceptMaps, the entry of every mapping element holds each target of that
\* element, with the group's target system, the target's code, display and
\* equivalence, also when several groups or ConceptMaps map the same source
\* code; an entry no mapping element is about has no mappings.
C18_MappingsAttached ==
    ( /\ BuildReturned
      /\ ~HasMalformed )
        => /\ \A mapping \in MappingElements : \A k \in EntriesFor(mapping) :
                 Range(MappingsOf(mapping.group, mapping.element))
                    \subseteq Range(out.index[k].mappings)
           /\ \A k \in 1..Len(out.index) :
                 (\A mapping \in MappingElements : k \notin EntriesFor(mapping))
                    => out.index[k].mappings = <<>>

-----------------------------------------------------------------------------
(* Properties of the cache protocol of buildSearchIndex (SpecCache) *)

\* C17 (cache protocol): a buildSearchIndex that read both the cached index and
\* the cached version stamp installs exactly the deserialized index and that
\* version, reads no store collection and writes nothing to the cache, whatever
\* the store holds by then; one that missed either builds from the store and
\* (every entry the documents read yield is in the index) and has, when it
\* returns, written the serialized index and the version stamp, the cached
\* index being the in-memory one.
C17_CacheProtocol ==
    ( /\ out.op \in {"initialize", "refresh"}
      /\ ~out.threw )
        => IF out.cachedIndex.present /\ out.cachedVersion # 0
           THEN /\ out.hit
                /\ out.index = JSONparse(out.cachedIndex)
                /\ out.version = out.cachedVersion
                /\ out.codeSystems.read = "no"
                /\ out.conceptMaps.read = "no"
                /\ out.writes = 0
           ELSE /\ ~out.hit
                /\ out.codeSystems.read = "ok"
                /\ Range(BuiltFromRead(out.codeSystems, out.conceptMaps))
                       \subseteq Range(out.index)
                /\ out.writes = 2
                /\ out.cache.index = JSONstringify(out.index)
                /\ JSONparse(out.cache.index) = out.index
                /\ out.cache.version = out.version

\* a cache hit that installs an index the store no longer yields
C17_HitWitness ==
    /\ out.op = "initialize"
    /\ ~out.threw
    /\ out.hit
    /\ out.index # BuiltFrom(db)
    /\ searchIndex[out.inst] = out.index

\* a build after one of the two keys expired, the other still being cached
C17_MissWitness ==
    /\ out.op = "initialize"
    /\ ~out.threw
    /\ ~out.hit
    /\ out.cachedIndex.present
    /\ out.cachedVersion = 0
    /\ out.writes = 2

-----------------------------------------------------------------------------
(* Properties of the definition, code and display rules (SpecScore) *)

\* two entries alike in code, display, properties and system type, of which
\* only the first has a definition containing the query
OnlyFirstDefinitionMatches ==
    /\ out.op = "calculateRelevanceScore"
    /\ Len(out.searchTerm) >= 2
    /\ out.first.code = out.second.code
    /\ out.first.display = out.second.display
    /\ out.first.properties = out.second.properties
    /\ out.first.systemType = out.second.systemType
    /\ includes(toLowerCase(out.first.definition), out.searchTerm)
    /\ ~includes(toLowerCase(out.second.definition), out.searchTerm)

\* the lowercased definition is a search term of its own: not the code term,
\* not the display term, not a property value
DefinitionIsOwnTerm(entry) ==
    toLowerCase(entry.definition) \notin
        {toLowerCase(entry.code), toLowerCase(entry.display)}
            \cup Range(PropertyTerms(entry.properties))

\* what the fuzzy fallback added to the score of the entry
FuzzyPart(entry) ==
    IF FuzzyInvoked(out.searchTerm, entry, out.fuzzy)
    THEN FuzzyContribution(out.searchTerm, entry) ELSE 0

\* C19 (definition weight), as stated: of two entries alike in code, display,
\* properties and system type, the one whose definition alone contains the
\* query scores exactly 20 more.
C19_ExactlyTwenty ==
    OnlyFirstDefinitionMatches => out.firstScore = out.secondScore + 20

\* C19 (definition weight), amended: the matching definition counts 20 as the
\* definition and 10 more as a search term of the entry, unless its lowercased
\* text is the code term, the display term or a property value; the second
\* entry's score is taken without what the fuzzy fallback added to it.
C19_DefinitionWeight ==
    OnlyFirstDefinitionMatches
        => out.firstScore = (out.secondScore - FuzzyPart(out.second)) + 20
                               + (IF DefinitionIsOwnTerm(out.first) THEN 10 ELSE 0)

\* fuzzy off, the definition a term of its own: the difference is 30
C19_Witness ==
    /\ OnlyFirstDefinitionMatches
    /\ ~out.fuzzy
    /\ DefinitionIsOwnTerm(out.first)
    /\ out.firstScore = out.secondScore + 30

\* an entry scored with fuzzy off that has no definition and no properties
PlainEntries ==
    IF out.op = "calculateRelevanceScore" /\ ~out.fuzzy /\ Len(out.searchTerm) >= 2
    THEN { pair \in { [entry |-> out.first, score |-> out.firstScore],
                      [entry |-> out.second, score |-> out.secondScore] } :
             pair.entry.definition = <<>> /\ pair.entry.properties = <<>> }
    ELSE {}

\* the weight of the code rule that applies
CodeWeight(entry) ==
    CASE toLowerCase(entry.code) = out.searchTerm -> 100
      [] /\ toLowerCase(entry.code) # out.searchTerm
         /\ includes(toLowerCase(entry.code), out.searchTerm) -> 50
      [] OTHER -> 0

\* the weight of the highest-priority display rule that applies
DisplayWeight(entry) ==
    CASE toLowerCase(entry.display) = out.searchTerm -> 80
      [] /\ toLowerCase(entry.display) # out.searchTerm
         /\ startsWith(toLowerCase(entry.display), out.searchTerm) -> 60
      [] /\ ~startsWith(toLowerCase(entry.display), out.searchTerm)
         /\ includes(toLowerCase(entry.display), out.searchTerm) -> 40
      [] OTHER -> 0

\* C20 (code and display rules): with fuzzy off, the score of an entry without
\* definition and properties is the weight of its code rule (100 equal, 50
\* contains), plus the weight of the one highest-priority display rule that
\* applies (80 equal, 60 starts with, 40 contains), plus 5 for a namaste entry,
\* all comparisons being made on lowercased text.
C20_CodeDisplayBoost ==
    \A pair \in PlainEntries :
        pair.score = CodeWeight(pair.entry) + DisplayWeight(pair.entry)
                        + (IF pair.entry.systemType = "namaste" THEN 5 ELSE 0)

\* a namaste entry whose code contains the query and whose display, in another
\* letter case, starts with it: 50 + 60 + 5
C20_Witness ==
    \E pair \in PlainEntries :
        /\ CodeWeight(pair.entry) = 50
        /\ DisplayWeight(pair.entry) = 60
        /\ ~startsWith(pair.entry.display, out.searchTerm)
        /\ pair.entry.systemType = "namaste"
        /\ pair.score = 115

-----------------------------------------------------------------------------
(* Properties of builds that miss the cache together (SpecCollide) *)

\* both instances have built from the store (each holds a version stamp of its
\* own, which a cache hit would not give it) and no call is in flight
BothBuilt ==
    /\ \A p \in Procs : ~InFlight(task[p])
    /\ \A i \in Instances : indexVersion[i] # 0
    /\ indexVersion["router"] # indexVersion["admin"]

\* C21 (concurrent rebuild-on-miss leaves a consistent cache): once two builds
\* that both missed the cache have completed, the cached index and the cached
\* version stamp are those of one and the same build.
C21_CacheOfOneBuild ==
    BothBuilt
        => \E i \in Instances :
              /\ redis.index = JSONstringify(searchIndex[i])
              /\ redis.version = indexVersion[i]

-----------------------------------------------------------------------------
(* Properties of the codings composed by searchWithDualCoding (SpecDual) *)

TmMarked(uri) == includes(uri, <<"traditional-medicine">>)
BioMarked(uri) == includes(uri, <<"mms">>) /\ ~includes(uri, <<"traditional-medicine">>)

\* the first-target codings of the groups findMappingsForCode is to use for a
\* hit: source = the hit's system, an element for the hit's code with at least
\* one target, and a target URI marked as the TM module (tm) or as biomedicine
FirstTargets(hit, tm) ==
    UNION { UNION { { Coding(cm.group[g].target,
                             cm.group[g].element.items[e].target.items[1].code,
                             cm.group[g].element.items[e].target.items[1].display) :
                        e \in { x \in 1..Len(cm.group[g].element.items) :
                                  /\ cm.group[g].element.items[x].code = hit.code
                                  /\ cm.group[g].element.items[x].target.items # <<>> } } :
                    g \in { h \in 1..Len(cm.group) :
                              /\ cm.group[h].source = hit.system
                              /\ IF tm THEN TmMarked(cm.group[h].target)
                                       ELSE BioMarked(cm.group[h].target) } } :
            cm \in Range(db.conceptmaps) }

\* C22 (dual-coding target classification): in every record, the TM coding is
\* the first target of a group of the hit's system and code whose target URI
\* has the traditional-medicine marker, and is present when there is such a
\* group; the biomedicine coding is the first target of such a group whose
\* target URI has the biomedicine marker and not the traditional-medicine one,
\* and is present when there is such a group; so a biomedicine coding never has
\* a traditional-medicine system and no record holds a target beyond the first.
C22_TargetClassification ==
    ( /\ out.op = "searchWithDualCoding"
      /\ out.failedReads = 0 )
        => \A k \in 1..Len(out.bundle.entry) :
              LET record == out.bundle.entry[k]
                  hit == out.hits[k]
              IN /\ record.icd11TM2.present
                    <=> FirstTargets(hit, TRUE) # {}
                 /\ record.icd11TM2.present
                    => record.icd11TM2 \in FirstTargets(hit, TRUE)
                 /\ record.icd11Bio.present
                    <=> FirstTargets(hit, FALSE) # {}
                 /\ record.icd11Bio.present
                    => /\ record.icd11Bio \in FirstTargets(hit, FALSE)
                       /\ ~TmMarked(record.icd11Bio.system)

\* a record whose hit has a TM group and a biomedicine group, each with an
\* element of two targets
C22_Witness ==
    /\ out.op = "searchWithDualCoding"
    /\ out.failedReads = 0
    /\ \E k \in 1..Len(out.bundle.entry) :
          /\ out.bundle.entry[k].icd11TM2 = Coding(Tm2Url, T1.code, T1.display)
          /\ out.bundle.entry[k].icd11Bio = Coding(BioUrl, B1.code, B1.display)

-----------------------------------------------------------------------------
(* Properties of the diagnostics of translateConcept (SpecTranslate) *)

\* the reason translateConcept returns when the element for the code exists
\* and its only target is a wider one
NoEquivalentReason ==
    translateConcept(
        [ codesystems |-> <<>>, valuesets |-> <<>>,
          conceptmaps |-> << ConceptMap(NamasteUrl, Tm2Url,
                                << Group(NamasteUrl, Tm2Url,
                                         List(<<Element(C1Code, List(<<TargetB>>))>>)) >>) >> ],
        NamasteUrl, C1Code, Tm2Url).value.message

\* C23 (translation diagnostics): when the ConceptMap consulted holds no
\* element for the code, the not-found outcome carries a reason other than the
\* one returned when the element exists without an equivalent target.
C23_ReasonsDiffer ==
    ( /\ out.op = "translateConcept"
      /\ HasMap(out)
      /\ WellFormed(MapOf(out))
      /\ ElementsFor(out) = {}
      /\ ~out.outcome.threw
      /\ ~out.outcome.value.result )
        => out.outcome.value.message # NoEquivalentReason

-----------------------------------------------------------------------------
(* Properties of the members returned by expandValueSet (SpecMember) *)

\* the codes the first include of the ValueSet expanded lists
ListedCodes ==
    LET include == db.valuesets[FindByUrl(db.valuesets, out.url)].compose.include[1]
    IN { include.concept[k].code : k \in 1..Len(include.concept) }

\* C24 (expansion returns only members of the value set): when the first
\* include lists concepts, every code of contains is a listed one, for every
\* offset and count, and total counts the concepts of the CodeSystem that are
\* listed and pass the filter.
C24_OnlyListedConcepts ==
    ( /\ out.op = "expandValueSet"
      /\ ~out.outcome.threw
      /\ ListedCodes # {} )
        => /\ \A k \in 1..Len(out.outcome.value.contains) :
                 out.outcome.value.contains[k].code \in ListedCodes
           /\ out.outcome.value.total =
                 Cardinality({ k \in Retained(out.filter) :
                                 IncludedConcepts[k].code \in ListedCodes })

-----------------------------------------------------------------------------
(* Properties of the hits of searchTerms (SpecSearch) *)

\* the query is a substring, whatever the case, of the code, the display, the
\* definition or a search term of the entry
QueryMatches(searchTerm, entry) ==
    \/ \E field \in {entry.code, entry.display, entry.definition} :
          includes(toLowerCase(field), searchTerm)
    \/ \E t \in 1..Len(entry.searchTerms) : includes(entry.searchTerms[t], searchTerm)

\* C25 (every search hit matches the query): each entry searchTerms returns
\* has the query as a case-insensitive substring of its code, display,
\* definition or a search term, or, with fuzzy enabled, a similarity above 0.7
\* to its code or display; whatever its systemType.
C25_EveryHitMatches ==
    ( /\ out.op = "searchTerms"
      /\ Len(SearchTermOf(out.query)) >= 2 )
        => \A k \in 1..Len(out.bundle.entry) :
              LET entry == EntryAt(<<out.bundle.entry[k].system, out.bundle.entry[k].code>>)
              IN \/ QueryMatches(SearchTermOf(out.query), entry)
                 \/ /\ out.options.fuzzy
                    /\ FracLess(<<7, 10>>, calculateFuzzyScore(SearchTermOf(out.query), entry))

-----------------------------------------------------------------------------
(* Properties of refreshes that overlap on one instance (SpecTwin) *)

\* the (system, code) keys of the concepts in the Concept Store
StoreKeys ==
    UNION { { <<cs.url, cs.concept[k].code>> : k \in 1..Len(cs.concept) } :
            cs \in Range(db.codesystems) }

\* the index holds one entry for every concept of the store
CompleteIndex(index) ==
    \A key \in StoreKeys :
        Cardinality({k \in 1..Len(index) : KeyOf(index[k]) = key}) = 1

\* C26 (concurrent refreshes converge to a complete index): over an unchanged
\* store, no index that lacks an entry for a concept of the store is ever in
\* the cache, and once two refreshIndex calls on the same instance have both
\* completed, the in-memory index and the cached index are complete.
C26_RefreshesConverge ==
    /\ redis.index.present => CompleteIndex(JSONparse(redis.index))
    /\ ( /\ calls >= 2
         /\ \A p \in Procs : ~InFlight(task[p]) )
          => /\ CompleteIndex(searchIndex["router"])
             /\ redis.index.present

-----------------------------------------------------------------------------
(* Properties of the lazy initialization of the router (SpecLazy) *)

\* C27 (no search before the initial load): every searchTerms call the router
\* serves scans the index as the completed initial build leaves it: all
\* entries of the store, mappings attached; never the index of a service whose
\* initial build is still in flight or has failed.
C27_NoSearchBeforeLoad ==
    out.op = "searchTerms" => out.scanned = BuiltFrom(db)

-----------------------------------------------------------------------------
(* Properties of a refresh that fails (SpecBuild) *)

\* C28 (failed refresh leaves state unchanged): when refreshIndex() is called
\* on an instance that holds a built index and throws, at whatever await, the
\* in-memory index, its version stamp and the cached index are what they were
\* when the refresh was called.
C28_FailedRefreshKeepsState ==
    ( /\ out.op = "refresh"
      /\ out.threw
      /\ out.before.index # <<>> )
        => /\ out.index = out.before.index
           /\ out.version = out.before.version
           /\ out.cache.index = out.before.cache.index

-----------------------------------------------------------------------------
(* Dual coding against translation (SpecDual) *)

\* translateConcept from the record's national coding to the system of one of
\* its codings succeeds with the code and display of that coding
TranslatesTo(record, coding) ==
    LET translation == translateConcept(db, record.namaste.system, record.namaste.code,
                                        coding.system)
    IN /\ ~translation.threw
       /\ translation.value.result
       /\ translation.value.code = coding.code
       /\ translation.value.display = coding.display

\* C29 (dual coding agrees with translation): for every record of
\* searchWithDualCoding that carries a TM coding or a biomedicine coding,
\* translateConcept from the record's national code to that coding's system
\* succeeds and returns the same target code and display.
C29_DualAgreesWithTranslate ==
    ( /\ out.op = "searchWithDualCoding"
      /\ out.failedReads = 0 )
        => \A k \in 1..Len(out.bundle.entry) :
              LET record == out.bundle.entry[k]
              IN /\ record.icd11TM2.present => TranslatesTo(record, record.icd11TM2)
                 /\ record.icd11Bio.present => TranslatesTo(record, record.icd11Bio)

-----------------------------------------------------------------------------
(* The admin refresh and the router's searches (SpecVisible) *)

\* C30 (refresh is visible process-wide): once the admin refresh has completed
\* with an index built from the changed store, every search the router serves
\* afterwards scans an index built from the changed store, not the index the
\* router's service loaded earlier.
C30_RefreshVisibleToRouter ==
    ( /\ out.op = "searchTerms"
      /\ RefreshCompleted
      /\ db = StoreV2
      /\ searchIndex["admin"] = BuiltFrom(StoreV2) )
        => out.scanned = BuiltFrom(StoreV2)

=============================================================================
